---- MODULE Spec2Model ----
(***************************************************************************)
(* A small-step model of the Brewin interpreter of src/interpreterv4.py    *)
(* and src/classdefs.py.                                                   *)
(*                                                                         *)
(* Identifiers and guest strings are sequences of one-character strings,   *)
(* so that name[-1], isupper, isdigit and concatenation are computed.      *)
(* A dotted name is the sequence of its segments (the result of            *)
(* name.split('.')).  Python dictionaries that are shared by identity      *)
(* (frames, object field maps, captured environments) live in `heap` and   *)
(* are referred to by their index.                                         *)
(***************************************************************************)
EXTENDS Integers, Sequences, FiniteSets, TLC

VARIABLES
    status,      \* "init", "loading", "running", "done", "error", "crash"
    error_type,  \* the ErrorType handed to InterpreterBase.error, or "none"
    program,     \* the parsed program: scenario tag, interfaces and functions still to load
    INTERFACES,  \* self.INTERFACES: interface letter -> interface node
    FUNCTIONS,   \* self.FUNCTIONS: function name -> sequence of Function ids
    funcs,       \* the Function objects, by id
    objs,        \* the Object instances, by id: the index of their field map in heap
    heap,        \* the dictionaries, by id
    K,           \* the interpreter's (Python) call stack, innermost frame last
    ctl,         \* what the innermost frame does next: run on, or receive a value
    out,         \* the lines handed to InterpreterBase.output
    called,      \* the Function ids whose bodies were entered, in order
    steps,       \* the number of interpreter steps taken
    inp,         \* the lines of host input not yet read
    layout,      \* where the host placed the run's objects: 0 until a text shows it
    earlier      \* how an earlier run of the same program and input ended, if there was one

vars == <<status, error_type, program, INTERFACES, FUNCTIONS, funcs, objs, heap,
          K, ctl, out, called, steps, inp, layout, earlier>>

-----------------------------------------------------------------------------
(* Characters and names *)

UpperLetters ==
    {"A","B","C","D","E","F","G","H","I","J","K","L","M",
     "N","O","P","Q","R","S","T","U","V","W","X","Y","Z"}

Digits == <<"0","1","2","3","4","5","6","7","8","9">>

Last(name) == name[Len(name)]

isupper(c) == c \in UpperLetters

\* the names the interpreter itself compares against
N_main   == <<"m","a","i","n">>
N_print  == <<"p","r","i","n","t">>
N_inputi == <<"i","n","p","u","t","i">>
N_inputs == <<"i","n","p","u","t","s">>
N_repr   == <<"r","e","p","r">>
N_selfo  == <<"s","e","l","f","o">>

-----------------------------------------------------------------------------
(* Values, References (classdefs.py) *)

Val(kind, val) == [kind |-> kind, val |-> val]

NilValue  == Val("Nil", "None")
VoidValue == Val("None", "None")

Ref(env, name) == [env |-> env, name |-> name]

IsRef(x) == "env" \in DOMAIN x

EmptyDict == [n \in {} |-> NilValue]

DictSet(d, k, v) == [n \in (DOMAIN d) \cup {k} |-> IF n = k THEN v ELSE d[n]]

\* {**a, **b}
DictMerge(a, b) == [n \in (DOMAIN a) \cup (DOMAIN b) |-> IF n \in DOMAIN b THEN b[n] ELSE a[n]]

\* Reference.get, followed through as the kind/value properties do; a name that
\* is no longer in its dictionary is Python's KeyError
RECURSIVE Get(_, _)
Get(h, x) ==
    IF ~IsRef(x) THEN x
    ELSE IF x.name \notin DOMAIN h[x.env] THEN Val("KeyError", "None")
    ELSE Get(h, h[x.env][x.name])

KindOf(h, x) == Get(h, x).kind

\* value is None
IsNone(v) == v.kind \in {"Nil", "None"}

\* a comparison that takes nil to fit every type
types_equal_lax(t1, t2) ==
    IF t1 = "Nil" \/ t2 = "Nil" THEN TRUE ELSE t1 = t2

types_equal(t1, t2) ==
    IF \/ (t1 = "Nil" /\ (t2 = "Object" \/ t2 = "Function"))
       \/ (t2 = "Nil" /\ (t1 = "Object" \/ t1 = "Function"))
    THEN TRUE
    ELSE t1 = t2

get_variable_type(var_name) ==
    IF isupper(Last(var_name)) THEN "Object"
    ELSE CASE Last(var_name) = "i" -> "int"
           [] Last(var_name) = "s" -> "str"
           [] Last(var_name) = "b" -> "bool"
           [] Last(var_name) = "o" -> "Object"
           [] Last(var_name) = "f" -> "Function"
           [] OTHER -> "NVRT"

\* a default that knows no nil
get_default_value_void(var_type) ==
    CASE var_type = "int" -> Val("int", 0)
      [] var_type = "str" -> Val("str", <<>>)
      [] var_type = "bool" -> Val("bool", FALSE)
      [] OTHER -> VoidValue

get_default_value(var_type) ==
    CASE var_type = "int" -> Val("int", 0)
      [] var_type = "str" -> Val("str", <<>>)
      [] var_type = "bool" -> Val("bool", FALSE)
      [] var_type = "Object" -> NilValue
      [] var_type = "Function" -> NilValue
      [] OTHER -> VoidValue

\* Function.__init__: the return type a function's name encodes
return_type_of(name) ==
    IF name = N_main THEN "None"
    ELSE IF isupper(Last(name)) THEN "Object"
    ELSE CASE Last(name) = "i" -> "int"
           [] Last(name) = "s" -> "str"
           [] Last(name) = "b" -> "bool"
           [] Last(name) = "o" -> "Object"
           [] Last(name) = "v" -> "None"
           [] Last(name) = "f" -> "Function"
           [] OTHER -> "NVRT"

-----------------------------------------------------------------------------
(* Signatures (classdefs.py) *)

\* generate_function_signature on a list of Arg nodes; <<"NVART">> is the exception
RECURSIVE sig_of_params(_)
sig_of_params(args) ==
    IF args = <<>> THEN <<>>
    ELSE LET c == Last(args[1].name)
             rest == sig_of_params(Tail(args))
         IN IF rest = <<"NVART">> THEN rest
            ELSE IF isupper(c) THEN <<"o">> \o rest
            ELSE IF c \in {"i", "s", "b", "o", "f"} THEN <<c>> \o rest
            ELSE <<"NVART">>

\* a signature that takes nil for an object
RECURSIVE sig_of_kinds_nil(_)
sig_of_kinds_nil(kinds) ==
    IF kinds = <<>> THEN <<>>
    ELSE LET k == kinds[1]
             rest == sig_of_kinds_nil(Tail(kinds))
             c == CASE k = "int" -> "i"
                    [] k = "str" -> "s"
                    [] k = "bool" -> "b"
                    [] k = "Object" \/ k = "Nil" -> "o"
                    [] k = "Function" -> "f"
                    [] OTHER -> "NVART"
         IN IF c = "NVART" \/ rest = <<"NVART">> THEN <<"NVART">>
            ELSE <<c>> \o rest

\* generate_function_signature on a list of evaluated arguments
RECURSIVE sig_of_kinds(_)
sig_of_kinds(kinds) ==
    IF kinds = <<>> THEN <<>>
    ELSE LET k == kinds[1]
             rest == sig_of_kinds(Tail(kinds))
             c == CASE k = "int" -> "i"
                    [] k = "str" -> "s"
                    [] k = "bool" -> "b"
                    [] k = "Object" -> "o"
                    [] k = "Function" -> "f"
                    [] OTHER -> "NVART"
         IN IF c = "NVART" \/ rest = <<"NVART">> THEN <<"NVART">>
            ELSE <<c>> \o rest

\* generate_extended_function_signature
RECURSIVE ext_sig_of_params(_)
ext_sig_of_params(args) ==
    IF args = <<>> THEN <<>>
    ELSE LET c == Last(args[1].name)
             rest == ext_sig_of_params(Tail(args))
             amp == IF args[1].ref THEN <<"&">> ELSE <<>>
         IN IF rest = <<"NVART">> THEN rest
            ELSE IF isupper(c) \/ c \in {"i", "s", "b", "o", "f"} THEN amp \o <<c>> \o rest
            ELSE <<"NVART">>

-----------------------------------------------------------------------------
(* Function objects (classdefs.Function, Interpreter.create_function) *)

\* Function.__init__ on a func node; environment 0 stands for "no attribute"
Function(function) ==
    [name |-> function.name,
     args |-> function.args,
     statements |-> function.statements,
     signature |-> sig_of_params(function.args),
     extended_signature |-> ext_sig_of_params(function.args),
     return_type |-> return_type_of(function.name),
     environment |-> 0]

\* create_function: the error Function.__init__'s exception is reported as
create_function_error(function) ==
    IF sig_of_params(function.args) = <<"NVART">> THEN "TYPE_ERROR"
    ELSE IF return_type_of(function.name) = "NVRT" THEN "TYPE_ERROR"
    ELSE "ok"

-----------------------------------------------------------------------------
(* Structural interfaces (classdefs.validate_object_with_interface) *)

\* the zip loop over (interface parameter, object function parameter)
RECURSIVE params_match(_, _)
params_match(int_args, obj_args) ==
    IF int_args = <<>> \/ obj_args = <<>> THEN "true"
    ELSE LET ia == int_args[1]
             oa == obj_args[1]
         IN IF ia.ref # oa.ref THEN "false"
            ELSE IF isupper(Last(ia.name))
                 THEN IF Last(oa.name) # Last(ia.name) THEN "false"
                      ELSE params_match(Tail(int_args), Tail(obj_args))
            ELSE IF get_variable_type(ia.name) = "NVRT" \/ get_variable_type(oa.name) = "NVRT"
                 THEN "crash"
            ELSE IF get_variable_type(ia.name) # get_variable_type(oa.name) THEN "false"
            ELSE params_match(Tail(int_args), Tail(obj_args))

\* the loop over the interface's fields; d is the object's field map.
\* "crash" is the AttributeError of `.value.function` on an entry that is no Function
RECURSIVE fields_match(_, _, _, _)
fields_match(fields, d, h, fs) ==
    IF fields = <<>> THEN "true"
    ELSE LET field == fields[1] IN
         IF field.name \notin DOMAIN d THEN "false"
         ELSE IF field.f = "var" THEN fields_match(Tail(fields), d, h, fs)
         ELSE LET entry == Get(h, d[field.name]) IN
              IF entry.kind # "Function" THEN "crash"
              ELSE LET function == fs[entry.val] IN
                   IF Len(field.params) # Len(function.args) THEN "false"
                   ELSE LET m == params_match(field.params, function.args) IN
                        IF m # "true" THEN m
                        ELSE fields_match(Tail(fields), d, h, fs)

\* obj is a Value or Reference whose kind is Object or Nil
validate_object_with_interface(interface, obj, s) ==
    IF KindOf(s.heap, obj) = "Nil" THEN "true"
    ELSE fields_match(interface.fields, s.heap[s.objs[Get(s.heap, obj).val]], s.heap, s.funcs)

\* the interface check shared by assignment, argument binding and return:
\*   interface = self.INTERFACES[letter]; if not types_equal(kind, Object) or not validate...
\* "crash" also stands for the KeyError of an unregistered letter
interface_check(letter, v, s) ==
    IF letter \notin DOMAIN INTERFACES THEN "crash"
    ELSE IF ~types_equal(KindOf(s.heap, v), "Object") THEN "TYPE_ERROR"
    ELSE LET r == validate_object_with_interface(INTERFACES[letter], v, s) IN
         IF r = "crash" THEN "crash"
         ELSE IF r = "false" THEN "TYPE_ERROR"
         ELSE "ok"

-----------------------------------------------------------------------------
(* Expressions without a call (Interpreter.run_expression).                  *)
(* s is [heap, objs, funcs]; the result is [err, v, s]: err is "ok", an    *)
(* ErrorType, or "crash" for a Python exception nobody reports.            *)

Res(err, v, s) == [err |-> err, v |-> v, s |-> s]

Fail(err, s) == Res(err, VoidValue, s)

\* Interpreter.object_qname_lookup
RECURSIVE walk_segments(_, _, _, _)
walk_segments(segs, d, s, write) ==
    \* d: the field map of iterr; segs: the segments still to walk, the last one final.
    \* write: the assignment's walk, which creates the final field
    IF Len(segs) = 1
    THEN IF ~write /\ segs[1] \notin DOMAIN s.heap[d] THEN Fail("NAME_ERROR", s)
         ELSE Res("ok", Ref(d, segs[1]), s)
    ELSE LET seg == segs[1] IN
         IF seg \notin DOMAIN s.heap[d] THEN Fail("NAME_ERROR", s)
         ELSE LET next_val == Get(s.heap, s.heap[d][seg]) IN
              IF next_val.kind = "KeyError" THEN Fail("crash", s)
              ELSE IF types_equal(next_val.kind, "Nil") /\ IsNone(next_val) THEN Fail("FAULT_ERROR", s)
              ELSE IF ~types_equal(next_val.kind, "Object") THEN Fail("TYPE_ERROR", s)
              ELSE walk_segments(Tail(segs), s.objs[next_val.val], s, write)

\* a lookup that reports a nil base variable as a name that is not defined
path_lookup_undefined(fields, B, L, s, write) ==
    LET var_base_name == fields[1] IN
    IF var_base_name \notin DOMAIN s.heap[B] /\ var_base_name \notin DOMAIN s.heap[L]
    THEN Fail("crash", s)
    ELSE LET slot == IF var_base_name \in DOMAIN s.heap[B] THEN s.heap[B][var_base_name]
                     ELSE s.heap[L][var_base_name]
             base_val == Get(s.heap, slot)
         IN IF base_val.kind = "KeyError" THEN Fail("crash", s)
            ELSE IF ~types_equal(base_val.kind, "Object") THEN Fail("TYPE_ERROR", s)
            ELSE IF IsNone(base_val) THEN Fail("NAME_ERROR", s)
            ELSE walk_segments(Tail(fields), s.objs[base_val.val], s, write)

path_lookup(fields, B, L, s, write) ==
    LET var_base_name == fields[1] IN
    IF var_base_name \notin DOMAIN s.heap[B] /\ var_base_name \notin DOMAIN s.heap[L]
    THEN Fail("crash", s)   \* KeyError
    ELSE LET slot == IF var_base_name \in DOMAIN s.heap[B] THEN s.heap[B][var_base_name]
                     ELSE s.heap[L][var_base_name]
             base_val == Get(s.heap, slot)
         IN IF base_val.kind = "KeyError" THEN Fail("crash", s)
            ELSE IF ~types_equal(base_val.kind, "Object") THEN Fail("TYPE_ERROR", s)
            ELSE IF IsNone(base_val) THEN Fail("FAULT_ERROR", s)
            ELSE walk_segments(Tail(fields), s.objs[base_val.val], s, write)

object_qname_lookup(fields, B, L, s) == path_lookup(fields, B, L, s, FALSE)

\* a capture that keeps every binding as it is
captured_env_shared(L, B, s) == DictMerge(s.heap[L], s.heap[B])

\* the lambda branch: `var.kind` of a visible Reference that dangles is a KeyError
capture_fails(L, B, s) ==
    LET current_env == DictMerge(s.heap[L], s.heap[B]) IN
    \E n \in DOMAIN current_env : KindOf(s.heap, current_env[n]) = "KeyError"

\* the lambda branch: the captured environment of a lambda evaluated in (L, B)
captured_env(L, B, s) ==
    LET current_env == DictMerge(s.heap[L], s.heap[B]) IN
    [var_name \in DOMAIN current_env |->
        LET var == current_env[var_name] IN
        IF KindOf(s.heap, var) \in {"int", "bool", "str", "Nil"}
        THEN IF IsRef(var)
             THEN Val(KindOf(s.heap, var), Get(s.heap, var).val)
             ELSE var
        ELSE var]

\* Python's // on ints
floordiv(a, b) == IF b > 0 THEN a \div b ELSE (0 - a) \div (0 - b)

binary_op(op, val1, val2, s) ==
    LET v1 == Get(s.heap, val1)
        v2 == Get(s.heap, val2)
        ints == v1.kind = "int" /\ v2.kind = "int"
        bools == v1.kind = "bool" /\ v2.kind = "bool"
    IN
    IF v1.kind = "KeyError" \/ v2.kind = "KeyError" THEN Fail("crash", s)
    ELSE CASE op = "+" ->
                IF v1.kind = "str" /\ v2.kind = "str" THEN Res("ok", Val("str", v1.val \o v2.val), s)
                ELSE IF ints THEN Res("ok", Val("int", v1.val + v2.val), s)
                ELSE Fail("TYPE_ERROR", s)
           [] op = "-" -> IF ints THEN Res("ok", Val("int", v1.val - v2.val), s) ELSE Fail("TYPE_ERROR", s)
           [] op = "*" -> IF ints THEN Res("ok", Val("int", v1.val * v2.val), s) ELSE Fail("TYPE_ERROR", s)
           [] op = "/" ->
                IF ~ints THEN Fail("TYPE_ERROR", s)
                ELSE IF v2.val = 0 THEN Fail("crash", s)   \* ZeroDivisionError
                ELSE Res("ok", Val("int", floordiv(v1.val, v2.val)), s)
           [] op = "<" -> IF ints THEN Res("ok", Val("bool", v1.val < v2.val), s) ELSE Fail("TYPE_ERROR", s)
           [] op = "<=" -> IF ints THEN Res("ok", Val("bool", v1.val <= v2.val), s) ELSE Fail("TYPE_ERROR", s)
           [] op = ">" -> IF ints THEN Res("ok", Val("bool", v1.val > v2.val), s) ELSE Fail("TYPE_ERROR", s)
           [] op = ">=" -> IF ints THEN Res("ok", Val("bool", v1.val >= v2.val), s) ELSE Fail("TYPE_ERROR", s)
           [] op = "==" ->
                IF ~types_equal(v1.kind, v2.kind) THEN Res("ok", Val("bool", FALSE), s)
                ELSE Res("ok", Val("bool", v1.kind = v2.kind /\ v1.val = v2.val), s)
           [] op = "!=" ->
                IF ~types_equal(v1.kind, v2.kind) THEN Res("ok", Val("bool", TRUE), s)
                ELSE Res("ok", Val("bool", ~(v1.kind = v2.kind /\ v1.val = v2.val)), s)
           [] op = "&&" -> IF bools THEN Res("ok", Val("bool", v1.val /\ v2.val), s) ELSE Fail("TYPE_ERROR", s)
           [] op = "||" -> IF bools THEN Res("ok", Val("bool", v1.val \/ v2.val), s) ELSE Fail("TYPE_ERROR", s)

RECURSIVE nat_str(_)
nat_str(n) == IF n < 10 THEN <<Digits[n + 1]>> ELSE nat_str(n \div 10) \o <<Digits[(n % 10) + 1]>>

\* str() of a Python int
int_str(n) == IF n < 0 THEN <<"-">> \o nat_str(0 - n) ELSE nat_str(n)

\* int(line) for a line of decimal digits; for any other line of the model it raises
RECURSIVE digits_int(_, _)
digits_int(line, n) ==
    IF line = <<>> THEN n
    ELSE digits_int(Tail(line), 10 * n + (CHOOSE d \in 0..9 : Digits[d + 1] = Head(line)))

isdigit(line) == line # <<>> /\ \A i \in 1..Len(line) : \E d \in 1..10 : Digits[d] = line[i]

str_int(line) == digits_int(line, 0)

\* CONVERT_NODE, lines 607-665, on the operand's value to_convert (a Value or a
\* Reference).  The test for nil at line 615 compares the kind with None, which is
\* the kind of a void value; a Nil or a Function goes on to the `else: raise` of
\* the target type
convert(to_type, to_convert, s) ==
    LET v == Get(s.heap, to_convert) IN
    IF v.kind = "KeyError" THEN Fail("crash", s)
    ELSE IF v.kind = "Object" THEN Fail("TYPE_ERROR", s)
    ELSE IF v.kind = "None" THEN Fail("TYPE_ERROR", s)
    ELSE CASE to_type = "int" ->
                (CASE v.kind = "str" ->
                        IF ~isdigit(v.val) THEN Fail("TYPE_ERROR", s)
                        ELSE Res("ok", Val("int", str_int(v.val)), s)
                   [] v.kind = "bool" -> Res("ok", Val("int", IF v.val THEN 1 ELSE 0), s)
                   [] v.kind = "int" -> Res("ok", to_convert, s)
                   [] OTHER -> Fail("crash", s))
           [] to_type = "str" ->
                (CASE v.kind = "int" -> Res("ok", Val("str", int_str(v.val)), s)
                   [] v.kind = "bool" ->
                        Res("ok", Val("str", IF v.val THEN <<"t","r","u","e">>
                                             ELSE <<"f","a","l","s","e">>), s)
                   [] v.kind = "str" -> Res("ok", to_convert, s)
                   [] OTHER -> Fail("crash", s))
           [] to_type = "bool" ->
                (CASE v.kind = "int" -> Res("ok", Val("bool", v.val # 0), s)
                   [] v.kind = "str" -> Res("ok", Val("bool", v.val # <<>>), s)
                   [] v.kind = "bool" -> Res("ok", to_convert, s)
                   [] OTHER -> Fail("crash", s))
           [] OTHER -> Fail("TYPE_ERROR", s)

RECURSIVE run_expression(_, _, _, _)
run_expression(expression, L, B, s) ==
    CASE expression.e = "str" -> Res("ok", Val("str", expression.val), s)
      [] expression.e = "int" -> Res("ok", Val("int", expression.val), s)
      [] expression.e = "bool" -> Res("ok", Val("bool", expression.val), s)
      [] expression.e = "nil" -> Res("ok", NilValue, s)
      [] expression.e = "obj" ->
            \* Value(Object, Object()): a new instance with a new, empty field map
            Res("ok", Val("Object", Len(s.objs) + 1),
                [s EXCEPT !.heap = Append(@, EmptyDict), !.objs = Append(@, Len(s.heap) + 1)])
      [] expression.e = "var" ->
            LET fields == expression.name
                var_base_name == fields[1]
            IN IF /\ var_base_name \notin DOMAIN s.heap[L]
                  /\ var_base_name \notin DOMAIN s.heap[B]
                  /\ var_base_name \notin DOMAIN FUNCTIONS
               THEN Fail("NAME_ERROR", s)
               ELSE IF Len(fields) > 1 THEN object_qname_lookup(fields, B, L, s)
               ELSE IF var_base_name \in DOMAIN FUNCTIONS
                    THEN Res("ok", Val("Function", FUNCTIONS[var_base_name][1]), s)
               ELSE IF var_base_name \in DOMAIN s.heap[B]
                    THEN IF IsRef(s.heap[B][var_base_name])
                         THEN Res("ok", s.heap[B][var_base_name], s)
                         ELSE Res("ok", Ref(B, var_base_name), s)
               ELSE IF IsRef(s.heap[L][var_base_name])
                    THEN Res("ok", s.heap[L][var_base_name], s)
                    ELSE Res("ok", Ref(L, var_base_name), s)
      [] expression.e = "lambda" ->
            LET env == captured_env(L, B, s) IN
            IF capture_fails(L, B, s) THEN Fail("crash", s)
            ELSE IF create_function_error(expression.func) # "ok"
                 THEN Fail(create_function_error(expression.func), s)
            ELSE Res("ok", Val("Function", Len(s.funcs) + 1),
                     [s EXCEPT !.heap = Append(@, env),
                               !.funcs = Append(@, [Function(expression.func)
                                                      EXCEPT !.environment = Len(s.heap) + 1])])
      [] expression.e = "bin" ->
            LET r1 == run_expression(expression.op1, L, B, s) IN
            IF r1.err # "ok" THEN r1
            ELSE LET r2 == run_expression(expression.op2, L, B, r1.s) IN
                 IF r2.err # "ok" THEN r2
                 ELSE binary_op(expression.op, r1.v, r2.v, r2.s)
      [] expression.e = "convert" ->
            LET r1 == run_expression(expression.expr, L, B, s) IN
            IF r1.err # "ok" THEN r1
            ELSE convert(expression.to_type, r1.v, r1.s)
      [] expression.e = "neg" ->
            LET r1 == run_expression(expression.op1, L, B, s) IN
            IF r1.err # "ok" THEN r1
            ELSE IF KindOf(r1.s.heap, r1.v) = "KeyError" THEN Fail("crash", r1.s)
            ELSE IF KindOf(r1.s.heap, r1.v) # "int" THEN Fail("TYPE_ERROR", r1.s)
            ELSE Res("ok", Val("int", (0 - 1) * Get(r1.s.heap, r1.v).val), r1.s)
      [] expression.e = "not" ->
            LET r1 == run_expression(expression.op1, L, B, s) IN
            IF r1.err # "ok" THEN r1
            ELSE IF KindOf(r1.s.heap, r1.v) = "KeyError" THEN Fail("crash", r1.s)
            ELSE IF KindOf(r1.s.heap, r1.v) # "bool" THEN Fail("TYPE_ERROR", r1.s)
            ELSE Res("ok", Val("bool", ~Get(r1.s.heap, r1.v).val), r1.s)

-----------------------------------------------------------------------------
(* Value.__str__ / Reference.__str__ *)

\* the places the host may put the run's objects
Layouts == {4096, 8192}

\* str(arg) for an evaluated argument.  The text Python prints for an Object (its
\* dict) is kept as one opaque token.  A Function has no __str__: its text is
\* object.__repr__, which shows the address the host gave it, here at + its id.
value_str(h, x, at) ==
    LET v == Get(h, x) IN
    CASE v.kind = "bool" -> IF v.val THEN <<"t","r","u","e">> ELSE <<"f","a","l","s","e">>
      [] v.kind = "int" -> int_str(v.val)
      [] v.kind = "str" -> v.val
      [] v.kind = "Object" -> <<"<Object>">>
      [] v.kind = "Function" -> <<"<Function at ">> \o nat_str(at + v.val) \o <<">">>
      [] OTHER -> <<"N","o","n","e">>

RECURSIVE concat_str(_, _, _)
concat_str(h, args, at) ==
    IF args = <<>> THEN <<>> ELSE value_str(h, args[1], at) \o concat_str(h, Tail(args), at)

-----------------------------------------------------------------------------
(* Interpreter.call_function, up to the first statement of the body.         *)
(* The result is [err, enter, v, frame, s]: a built-in returns v at once    *)
(* (enter = FALSE); a user function yields the frame its body runs in.      *)

CallRes(err, enter, v, frame, s) == [err |-> err, enter |-> enter, v |-> v, frame |-> frame, s |-> s]

CallFail(err, s) == CallRes(err, FALSE, VoidValue, <<>>, s)

DomOf(s, d) == IF d = 0 THEN {} ELSE DOMAIN s.heap[d]

kinds_of(h, args) == [i \in 1..Len(args) |-> KindOf(h, args[i])]

\* a lookup that knows no overloading: the first function of the name
match_overload_first(fids, sign, fs, found) ==
    IF fids = <<>> THEN found ELSE fids[1]

\* lines 201-204: the loop over the overload set; the last match wins
RECURSIVE match_overload(_, _, _, _)
match_overload(fids, sign, fs, found) ==
    IF fids = <<>> THEN found
    ELSE match_overload(Tail(fids), sign, fs,
                        IF fs[fids[1]].signature = sign THEN fids[1] ELSE found)

\* a lookup that takes nil for one more value that is no function
function_variable_untold(d, func_name, s, function) ==
    IF func_name \notin DomOf(s, d) THEN [err |-> "ok", f |-> function]
    ELSE LET v == Get(s.heap, s.heap[d][func_name]) IN
         IF v.kind = "KeyError" THEN [err |-> "crash", f |-> 0]
         ELSE IF v.kind # "Function" THEN [err |-> "TYPE_ERROR", f |-> 0]
         ELSE [err |-> "ok", f |-> v.val]

\* lines 205-230: a variable of the caller's frame named like the call.
\* [err, f]: f = 0 when the dictionary does not hold the name
function_variable(d, func_name, s, function) ==
    IF func_name \notin DomOf(s, d) THEN [err |-> "ok", f |-> function]
    ELSE LET v == Get(s.heap, s.heap[d][func_name]) IN
         IF v.kind = "KeyError" THEN [err |-> "crash", f |-> 0]
         ELSE IF v.kind = "Nil" THEN [err |-> "FAULT_ERROR", f |-> 0]
         ELSE IF v.kind # "Function" THEN [err |-> "TYPE_ERROR", f |-> 0]
         ELSE [err |-> "ok", f |-> v.val]

\* lines 181-236: [err, f]
select_function(func_name, args, CALLER_LOCAL, CALLER_BLOCK, s) ==
    IF /\ func_name \notin DOMAIN FUNCTIONS
       /\ func_name \notin DomOf(s, CALLER_LOCAL)
       /\ func_name \notin DomOf(s, CALLER_BLOCK)
    THEN [err |-> "NAME_ERROR", f |-> 0]
    ELSE IF \E i \in 1..Len(args) : KindOf(s.heap, args[i]) = "KeyError"
    THEN [err |-> "crash", f |-> 0]
    ELSE LET sign == sig_of_kinds(kinds_of(s.heap, args)) IN
         IF sign = <<"NVART">> THEN [err |-> "TYPE_ERROR", f |-> 0]
         ELSE LET g == IF func_name \in DOMAIN FUNCTIONS
                       THEN match_overload(FUNCTIONS[func_name], sign, s.funcs, 0)
                       ELSE 0
                  l == function_variable(CALLER_LOCAL, func_name, s, g)
              IN IF l.err # "ok" THEN l
                 ELSE LET b == function_variable(CALLER_BLOCK, func_name, s, l.f) IN
                      IF b.err # "ok" THEN b
                      ELSE IF b.f = 0 THEN [err |-> "NAME_ERROR", f |-> 0]
                      ELSE b

\* lines 160-178: [err, f, selfo, s]; the new Object instance shares the owner's field map
select_method(fields, CALLER_LOCAL, CALLER_BLOCK, s) ==
    LET none == [err |-> "crash", f |-> 0, selfo |-> VoidValue, s |-> s] IN
    IF CALLER_LOCAL = 0 THEN none
    ELSE LET r == object_qname_lookup(fields, CALLER_BLOCK, CALLER_LOCAL, s) IN
         IF r.err # "ok" THEN [none EXCEPT !.err = r.err]
         ELSE IF KindOf(s.heap, r.v) = "KeyError" THEN none
         ELSE IF KindOf(s.heap, r.v) = "Nil" THEN [none EXCEPT !.err = "FAULT_ERROR"]
         ELSE IF KindOf(s.heap, r.v) # "Function" THEN [none EXCEPT !.err = "TYPE_ERROR"]
         ELSE [err |-> "ok", f |-> Get(s.heap, r.v).val,
               selfo |-> Val("Object", Len(s.objs) + 1),
               s |-> [s EXCEPT !.objs = Append(@, r.v.env)]]

\* lines 255-297: the loop that loads the arguments into LOCAL_VARIABLES; [err, s]
RECURSIVE bind_args(_, _, _, _, _, _)
bind_args(i, params, args, letter, LOCAL_VARIABLES, s) ==
    IF i > Len(params) THEN [err |-> "ok", s |-> s]
    ELSE LET arg_name == params[i].name
             arg_val == args[i]
             arg_type == get_variable_type(arg_name)
             chk == IF isupper(letter) THEN interface_check(letter, arg_val, s) ELSE "ok"
         IN IF arg_type # KindOf(s.heap, arg_val) THEN [err |-> "TYPE_ERROR", s |-> s]
            ELSE IF chk # "ok" THEN [err |-> chk, s |-> s]
            ELSE IF params[i].ref /\ ~IsRef(arg_val) THEN [err |-> "TYPE_ERROR", s |-> s]
            ELSE LET bound == IF params[i].ref THEN arg_val
                              ELSE IF IsRef(arg_val) THEN Val(KindOf(s.heap, arg_val), Get(s.heap, arg_val).val)
                              ELSE arg_val
                 IN bind_args(i + 1, params, args, letter, LOCAL_VARIABLES,
                              [s EXCEPT !.heap[LOCAL_VARIABLES] = DictSet(@, arg_name, bound)])

\* the special print function
call_print(args, s) ==
    IF \E i \in 1..Len(args) : KindOf(s.heap, args[i]) = "KeyError" THEN CallFail("crash", s)
    ELSE CallRes("ok", FALSE, VoidValue, <<>>,
                 [s EXCEPT !.out = Append(@, concat_str(s.heap, args, s.layout))])

\* InterpreterBase.get_input: the next line of the input handed to the run
get_input(s) == [line |-> Head(s.inp), s |-> [s EXCEPT !.inp = Tail(@)]]

\* the special inputi and inputs functions; s1 is the state once the prompt is printed.
\* int() of a line that is no number is a ValueError nobody reports.
read_input(func_name, s1) ==
    IF s1.inp = <<>> THEN CallFail("crash", s1)
    ELSE LET got == get_input(s1) IN
         IF func_name = N_inputs THEN CallRes("ok", FALSE, Val("str", got.line), <<>>, got.s)
         ELSE IF ~isdigit(got.line) THEN CallFail("crash", got.s)
         ELSE CallRes("ok", FALSE, Val("int", str_int(got.line)), <<>>, got.s)

prompted(func_name, args, printed) ==
    IF printed.err # "ok" THEN printed
    ELSE IF Len(args) > 1 THEN CallFail("NAME_ERROR", printed.s)
    ELSE read_input(func_name, printed.s)

call_input(func_name, args, s) ==
    prompted(func_name, args,
             IF Len(args) = 1 THEN call_print(args, s) ELSE CallRes("ok", FALSE, VoidValue, <<>>, s))

\* lines 238-297, for the Function f that was found
enter_function(func_name, f, method, selfo, args, s) ==
    LET function == s.funcs[f]
        sign == sig_of_kinds(kinds_of(s.heap, args))
    IN
    IF \E i \in 1..Len(args) : KindOf(s.heap, args[i]) = "KeyError" THEN CallFail("crash", s)
    ELSE IF sign = <<"NVART">> THEN CallFail("crash", s)   \* raised outside the try of line 189
    ELSE IF sign # sig_of_params(function.args) THEN CallFail("TYPE_ERROR", s)
    ELSE LET fresh == function.environment = 0
             LOCAL_VARIABLES == IF fresh THEN Len(s.heap) + 1 ELSE function.environment
             s1 == IF fresh THEN [s EXCEPT !.heap = Append(@, EmptyDict)] ELSE s
             s2 == IF method THEN [s1 EXCEPT !.heap[LOCAL_VARIABLES] = DictSet(@, N_selfo, selfo)] ELSE s1
             b == bind_args(1, function.args, args, Last(Last(func_name)), LOCAL_VARIABLES, s2)
         IN IF b.err # "ok" THEN CallFail(b.err, b.s)
            ELSE CallRes("ok", TRUE, VoidValue,
                         [k |-> "fn", f |-> f, L |-> LOCAL_VARIABLES, B |-> LOCAL_VARIABLES,
                          rest |-> function.statements],
                         b.s)

\* the function that was selected, if any, is entered
enter_selected(func_name, args, method, sel, s) ==
    IF sel.err # "ok" THEN CallFail(sel.err, s)
    ELSE IF method THEN enter_function(func_name, sel.f, TRUE, sel.selfo, args, sel.s)
    ELSE enter_function(func_name, sel.f, FALSE, VoidValue, args, s)

call_function(func_name, args, CALLER_LOCAL, CALLER_BLOCK, s) ==
    IF func_name = <<N_print>> THEN call_print(args, s)
    ELSE IF func_name \in {<<N_inputi>>, <<N_inputs>>} THEN call_input(func_name[1], args, s)
    ELSE IF Len(func_name) # 1
    THEN enter_selected(func_name, args, TRUE,
                        select_method(func_name, CALLER_LOCAL, CALLER_BLOCK, s), s)
    ELSE enter_selected(func_name, args, FALSE,
                        select_function(func_name[1], args, CALLER_LOCAL, CALLER_BLOCK, s), s)

-----------------------------------------------------------------------------
(* Interpreter.run_statement: the parts that do not call a function *)

StRes(err, s) == [err |-> err, s |-> s]

\* a declaration that takes a declared name again and resets it
define_variable_again(var_base_name, d, s) ==
    IF get_variable_type(var_base_name) = "NVRT" THEN StRes("TYPE_ERROR", s)
    ELSE StRes("ok", [s EXCEPT !.heap[d] =
                        DictSet(@, var_base_name, get_default_value(get_variable_type(var_base_name)))])

\* VAR_DEF_NODE / BVAR_DEF_NODE: d is LOCAL_VARIABLES, or BLOCK_VARIABLES
define_variable(var_base_name, d, s) ==
    IF get_variable_type(var_base_name) = "NVRT" THEN StRes("TYPE_ERROR", s)
    ELSE IF var_base_name \in DOMAIN s.heap[d] THEN StRes("NAME_ERROR", s)
    ELSE StRes("ok", [s EXCEPT !.heap[d] =
                        DictSet(@, var_base_name, get_default_value(get_variable_type(var_base_name)))])

\* ASSIGNMENT_NODE, lines 380-392: what is checked before the right-hand side is evaluated
assign_precheck(fields, L, B, s) ==
    IF get_variable_type(fields[Len(fields)]) = "NVRT" THEN "crash"
    ELSE IF fields[1] \notin DOMAIN s.heap[L] /\ fields[1] \notin DOMAIN s.heap[B] THEN "NAME_ERROR"
    ELSE "ok"

\* lines 425-459: the walk of a dotted assignment, to the Reference of the final field
assign_walk(fields, B, L, s) == path_lookup(fields, B, L, s, TRUE)

\* a store that overwrites the slot whatever it holds
store_variable_slot(var_base_name, new_value, L, B, s) ==
    LET d == IF var_base_name \in DOMAIN s.heap[B] THEN B ELSE L
    IN [s EXCEPT !.heap[d] = DictSet(@, var_base_name, new_value)]

\* lines 461-473: the store into a plain variable's slot
store_variable(var_base_name, new_value, L, B, s) ==
    LET d == IF var_base_name \in DOMAIN s.heap[B] THEN B ELSE L
        slot == s.heap[d][var_base_name]
    IN IF IsRef(slot)
       THEN [s EXCEPT !.heap[slot.env] = DictSet(@, slot.name, new_value)]
       ELSE [s EXCEPT !.heap[d] = DictSet(@, var_base_name, new_value)]

\* an assignment that checks no type
assign_value_unchecked(fields, value, L, B, s) ==
    LET dangling == IsRef(value) /\ value.name \notin DOMAIN s.heap[value.env]
        new_value == IF IsRef(value) /\ ~dangling THEN s.heap[value.env][value.name] ELSE value
    IN
    IF dangling \/ KindOf(s.heap, new_value) = "KeyError" THEN StRes("crash", s)
    ELSE IF Len(fields) > 1
         THEN LET w == assign_walk(fields, B, L, s) IN
              IF w.err # "ok" THEN StRes(w.err, s)
              ELSE StRes("ok", [s EXCEPT !.heap[w.v.env] = DictSet(@, w.v.name, new_value)])
    ELSE StRes("ok", store_variable(fields[1], new_value, L, B, s))

\* ASSIGNMENT_NODE, lines 397-473: value is what the right-hand side evaluated to
assign_value(fields, value, L, B, s) ==
    LET var_type == get_variable_type(fields[Len(fields)])
        dangling == IsRef(value) /\ value.name \notin DOMAIN s.heap[value.env]
        new_value == IF IsRef(value) /\ ~dangling THEN s.heap[value.env][value.name] ELSE value
        letter == Last(fields[Len(fields)])
        chk == IF isupper(letter) THEN interface_check(letter, new_value, s) ELSE "ok"
    IN
    IF dangling \/ KindOf(s.heap, new_value) = "KeyError" THEN StRes("crash", s)
    ELSE IF ~types_equal(var_type, KindOf(s.heap, new_value)) THEN StRes("TYPE_ERROR", s)
    ELSE IF chk # "ok" THEN StRes(chk, s)
    ELSE IF Len(fields) > 1
         THEN LET w == assign_walk(fields, B, L, s) IN
              IF w.err # "ok" THEN StRes(w.err, s)
              ELSE StRes("ok", [s EXCEPT !.heap[w.v.env] = DictSet(@, w.v.name, new_value)])
    ELSE StRes("ok", store_variable(fields[1], new_value, L, B, s))

\* a fold that keeps the body's block dictionary as well
write_back_merge(NEW_LOCAL, NEW_BLOCK, L, B, s) ==
    LET nl == DictMerge(s.heap[NEW_LOCAL], s.heap[NEW_BLOCK])
        inB == DOMAIN s.heap[B]
        h1 == [s.heap EXCEPT ![B] = [n \in DOMAIN @ |-> IF n \in DOMAIN nl THEN nl[n] ELSE @[n]]]
        toL == (DOMAIN nl) \ inB
        h2 == [h1 EXCEPT ![L] = [n \in (DOMAIN @) \cup toL |-> IF n \in toL THEN nl[n] ELSE @[n]]]
    IN [s EXCEPT !.heap = h2]

\* lines 503-509 and 530-536: fold the body's view back into the enclosing frames
write_back(NEW_LOCAL, NEW_BLOCK, L, B, s) ==
    LET nl == s.heap[NEW_LOCAL]
        inB == DOMAIN s.heap[B]
        h0 == [s.heap EXCEPT ![NEW_BLOCK] = EmptyDict]
        h1 == [h0 EXCEPT ![B] = [n \in DOMAIN @ |-> IF n \in DOMAIN nl THEN nl[n] ELSE @[n]]]
        toL == (DOMAIN nl) \ inB
        h2 == [h1 EXCEPT ![L] = [n \in (DOMAIN @) \cup toL |-> IF n \in toL THEN nl[n] ELSE @[n]]]
    IN [s EXCEPT !.heap = h2]

\* the truth of `condition.value` that `if` and `while` branch on
truthy(v) ==
    CASE v.kind = "bool" -> v.val
      [] v.kind = "int" -> v.val # 0
      [] v.kind = "str" -> v.val # <<>>
      [] v.kind \in {"Object", "Function"} -> TRUE
      [] OTHER -> FALSE

\* a return that does not compare the value's kind with the function's return type
return_value_unchecked(f, val, s) ==
    LET function == s.funcs[f]
        return_value == IF "none" \in DOMAIN val THEN get_default_value(function.return_type) ELSE val
    IN Res("ok", return_value, s)

\* lines 304-334: the value a call returns; val is the ReturnSignal's value, or
\* [none |-> TRUE] for a bare return or the end of the body.  [err, v, s]
return_value_of(f, val, s) ==
    LET function == s.funcs[f]
        return_value == IF "none" \in DOMAIN val THEN get_default_value(function.return_type) ELSE val
        letter == Last(function.name)
        chk == IF isupper(letter) THEN interface_check(letter, return_value, s) ELSE "ok"
    IN IF KindOf(s.heap, return_value) = "KeyError" THEN Res("crash", return_value, s)
       ELSE IF ~types_equal(function.return_type, KindOf(s.heap, return_value))
            THEN Res("TYPE_ERROR", return_value, s)
       ELSE IF chk # "ok" THEN Res(chk, return_value, s)
       ELSE Res("ok", return_value, s)

\* a validation that lets a field refer to any interface letter
RECURSIVE validate_interface_unordered(_, _, _)
validate_interface_unordered(fields, existing_interfaces, field_names) ==
    IF fields = <<>> THEN "ok"
    ELSE LET name == fields[1].name IN
         IF name \in field_names THEN "NAME_ERROR"
         ELSE IF get_variable_type(name) = "NVRT" THEN "TYPE_ERROR"
         ELSE validate_interface_unordered(Tail(fields), existing_interfaces,
                                           field_names \cup {name})

\* validate_interface (classdefs.py): "ok", or the ErrorType def_interface reports
RECURSIVE validate_interface(_, _, _)
validate_interface(fields, existing_interfaces, field_names) ==
    IF fields = <<>> THEN "ok"
    ELSE LET name == fields[1].name IN
         IF name \in field_names THEN "NAME_ERROR"
         ELSE IF get_variable_type(name) = "NVRT" THEN "TYPE_ERROR"
         ELSE IF isupper(Last(name)) /\ Last(name) \notin existing_interfaces THEN "NAME_ERROR"
         ELSE validate_interface(Tail(fields), existing_interfaces, field_names \cup {name})

-----------------------------------------------------------------------------
(* The state machine *)

\* a bound on the length of a run
MaxSteps == 80

BlockKinds == {"fn", "if", "while"}

Top == K[Len(K)]

\* the innermost frame that carries LOCAL_VARIABLES / BLOCK_VARIABLES
EnvIdx ==
    CHOOSE i \in 1..Len(K) : K[i].k \in BlockKinds /\ \A j \in (i + 1)..Len(K) : K[j].k \notin BlockKinds

CurL == K[EnvIdx].L
CurB == K[EnvIdx].B

\* the innermost function activation
FnIdx ==
    CHOOSE i \in 1..Len(K) : K[i].k = "fn" /\ \A j \in (i + 1)..Len(K) : K[j].k # "fn"

S == [heap |-> heap, objs |-> objs, funcs |-> funcs, out |-> out, inp |-> inp, layout |-> layout]

RunCtl == [c |-> "run"]
ValCtl(v) == [c |-> "val", v |-> v]

Running == status = "running" /\ steps < MaxSteps

AtStatement(kind) ==
    /\ Running
    /\ ctl.c = "run"
    /\ Top.k \in BlockKinds
    /\ Top.rest # <<>>
    /\ Head(Top.rest).s = kind

\* the stack once the statement at hand has been taken off the innermost body
Taken == [K EXCEPT ![Len(K)].rest = Tail(@)]

IsCall(expression) == expression.e = "call"

\* the successor state: the effects s of the step; then either the error that
\* ends the run, or the stack and control the run goes on with
Outcome(err, s, K2, ctl2, called2) ==
    /\ heap' = s.heap
    /\ objs' = s.objs
    /\ funcs' = s.funcs
    /\ out' = s.out
    /\ inp' = s.inp
    /\ layout' = s.layout
    /\ steps' = steps + 1
    /\ UNCHANGED <<program, INTERFACES, FUNCTIONS, earlier>>
    /\ IF err = "ok"
       THEN /\ K' = K2
            /\ ctl' = ctl2
            /\ called' = called2
            /\ UNCHANGED <<status, error_type>>
       ELSE /\ status' = IF err = "crash" THEN "crash" ELSE "error"
            /\ error_type' = err
            /\ UNCHANGED <<K, ctl, called>>

Init ==
    /\ status = "init"
    /\ error_type = "none"
    /\ program = [tag |-> [fam |-> "none"], interfaces |-> <<>>, functions |-> <<>>]
    /\ INTERFACES = EmptyDict
    /\ FUNCTIONS = EmptyDict
    /\ funcs = <<>>
    /\ objs = <<>>
    /\ heap = <<>>
    /\ K = <<>>
    /\ ctl = RunCtl
    /\ out = <<>>
    /\ called = <<>>
    /\ steps = 0
    /\ inp = <<>>
    /\ layout = 0
    /\ earlier = <<>>

\* Interpreter.run, line 13: the program handed to run()
Run(p, lines) ==
    /\ status = "init"
    /\ status' = "loading"
    /\ program' = p
    /\ inp' = lines
    /\ UNCHANGED <<error_type, INTERFACES, FUNCTIONS, funcs, objs, heap, K, ctl, out, called, steps,
                   layout, earlier>>

\* Interpreter.def_interface, for the next interface of the program
def_interface_error(interface) ==
    LET name == interface.name IN
    IF Len(name) # 1 \/ ~isupper(name[1]) THEN "NAME_ERROR"
    ELSE IF name[1] \in DOMAIN INTERFACES THEN "NAME_ERROR"
    ELSE validate_interface(interface.fields, DOMAIN INTERFACES, {})

DefInterface ==
    /\ status = "loading"
    /\ program.interfaces # <<>>
    /\ LET interface == Head(program.interfaces)
           err == def_interface_error(interface)
       IN IF err = "ok"
          THEN /\ INTERFACES' = DictSet(INTERFACES, interface.name[1], interface)
               /\ program' = [program EXCEPT !.interfaces = Tail(@)]
               /\ UNCHANGED <<status, error_type>>
          ELSE /\ status' = "error"
               /\ error_type' = err
               /\ UNCHANGED <<INTERFACES, program>>
    /\ UNCHANGED <<FUNCTIONS, funcs, objs, heap, K, ctl, out, called, steps, inp, layout, earlier>>

\* a registration that compares the extended signatures (`&` and interface letters kept)
def_function_error_extended(function) ==
    IF create_function_error(function) # "ok" THEN create_function_error(function)
    ELSE IF /\ function.name \in DOMAIN FUNCTIONS
            /\ \E i \in 1..Len(FUNCTIONS[function.name]) :
                   funcs[FUNCTIONS[function.name][i]].extended_signature
                       = Function(function).extended_signature
    THEN "NAME_ERROR"
    ELSE "ok"

\* Interpreter.def_function: "ok", or the ErrorType it reports
def_function_error(function) ==
    IF create_function_error(function) # "ok" THEN create_function_error(function)
    ELSE IF /\ function.name \in DOMAIN FUNCTIONS
            /\ \E i \in 1..Len(FUNCTIONS[function.name]) :
                   funcs[FUNCTIONS[function.name][i]].signature = Function(function).signature
    THEN "NAME_ERROR"
    ELSE "ok"

\* a loader that registers functions while interfaces are still to be registered
DefFunction_early ==
    /\ status = "loading"
    /\ program.functions # <<>>
    /\ LET function == Head(program.functions)
           func_name == function.name
       IN /\ def_function_error(function) = "ok"
          /\ funcs' = Append(funcs, Function(function))
          /\ FUNCTIONS' = DictSet(FUNCTIONS, func_name,
                                  IF func_name \in DOMAIN FUNCTIONS
                                  THEN Append(FUNCTIONS[func_name], Len(funcs) + 1)
                                  ELSE <<Len(funcs) + 1>>)
          /\ program' = [program EXCEPT !.functions = Tail(@)]
    /\ UNCHANGED <<status, error_type, INTERFACES, objs, heap, K, ctl, out, called, steps,
                   inp, layout, earlier>>

DefFunction ==
    /\ status = "loading"
    /\ program.interfaces = <<>>
    /\ program.functions # <<>>
    /\ LET function == Head(program.functions)
           err == def_function_error(function)
           func_name == function.name
       IN IF err = "ok"
          THEN /\ funcs' = Append(funcs, Function(function))
               /\ FUNCTIONS' = DictSet(FUNCTIONS, func_name,
                                       IF func_name \in DOMAIN FUNCTIONS
                                       THEN Append(FUNCTIONS[func_name], Len(funcs) + 1)
                                       ELSE <<Len(funcs) + 1>>)
               /\ program' = [program EXCEPT !.functions = Tail(@)]
               /\ UNCHANGED <<status, error_type>>
          ELSE /\ status' = "error"
               /\ error_type' = err
               /\ UNCHANGED <<FUNCTIONS, funcs, program>>
    /\ UNCHANGED <<INTERFACES, objs, heap, K, ctl, out, called, steps, inp, layout, earlier>>

\* lines 41-42: run() goes on with what the call of main gave
main_called(r) ==
    /\ heap' = r.s.heap
    /\ objs' = r.s.objs
    /\ funcs' = r.s.funcs
    /\ out' = r.s.out
    /\ inp' = r.s.inp
    /\ layout' = r.s.layout
    /\ IF r.err = "ok"
       THEN /\ status' = "running"
            /\ K' = <<[k |-> "run"], r.frame>>
            /\ called' = Append(called, r.frame.f)
            /\ UNCHANGED <<error_type, ctl>>
       ELSE /\ status' = IF r.err = "crash" THEN "crash" ELSE "error"
            /\ error_type' = r.err
            /\ UNCHANGED <<K, ctl, called>>

\* Interpreter.run, lines 34-42
CallMain ==
    /\ status = "loading"
    /\ program.interfaces = <<>>
    /\ program.functions = <<>>
    /\ IF N_main \notin DOMAIN FUNCTIONS
       THEN /\ status' = "error"
            /\ error_type' = "NAME_ERROR"
            /\ UNCHANGED <<K, ctl, heap, objs, funcs, out, called, inp, layout>>
       ELSE main_called(call_function(<<N_main>>, <<>>, 0, 0, S))
    /\ UNCHANGED <<program, INTERFACES, FUNCTIONS, steps, earlier>>

VarDef ==
    /\ AtStatement("vardef")
    /\ LET r == define_variable(Head(Top.rest).name, CurL, S) IN
       Outcome(r.err, r.s, Taken, RunCtl, called)

BVarDef ==
    /\ AtStatement("bvardef")
    /\ LET r == define_variable(Head(Top.rest).name, CurB, S) IN
       Outcome(r.err, r.s, Taken, RunCtl, called)

\* ASSIGNMENT_NODE whose right-hand side holds no call
Assign ==
    /\ AtStatement("assign")
    /\ ~IsCall(Head(Top.rest).expression)
    /\ LET statement == Head(Top.rest)
           pre == assign_precheck(statement.var, CurL, CurB, S)
           v == run_expression(statement.expression, CurL, CurB, S)
           r == assign_value(statement.var, v.v, CurL, CurB, v.s)
       IN IF pre # "ok" THEN Outcome(pre, S, Taken, RunCtl, called)
          ELSE IF v.err # "ok" THEN Outcome(v.err, v.s, Taken, RunCtl, called)
          ELSE Outcome(r.err, r.s, Taken, RunCtl, called)

\* ASSIGNMENT_NODE whose right-hand side is a call: the statement waits for its value
AssignCall ==
    /\ AtStatement("assign")
    /\ IsCall(Head(Top.rest).expression)
    /\ LET statement == Head(Top.rest)
           pre == assign_precheck(statement.var, CurL, CurB, S)
       IN Outcome(pre, S,
                  Taken \o <<[k |-> "assign", var |-> statement.var],
                             [k |-> "args", name |-> statement.expression.name,
                              vals |-> <<>>, todo |-> statement.expression.args]>>,
                  RunCtl, called)

\* FCALL_NODE as a statement
FCall ==
    /\ AtStatement("fcall")
    /\ LET statement == Head(Top.rest) IN
       Outcome("ok", S,
               Taken \o <<[k |-> "stmt"],
                          [k |-> "args", name |-> statement.name,
                           vals |-> <<>>, todo |-> statement.args]>>,
               RunCtl, called)

\* lines 479 / 603: the next argument, when it holds no call
EvalArg ==
    /\ Running
    /\ ctl.c = "run"
    /\ Top.k = "args"
    /\ Top.todo # <<>>
    /\ ~IsCall(Head(Top.todo))
    /\ LET v == run_expression(Head(Top.todo), CurL, CurB, S) IN
       Outcome(v.err, v.s,
               [K EXCEPT ![Len(K)].vals = Append(@, v.v), ![Len(K)].todo = Tail(@)],
               RunCtl, called)

\* the next argument is itself a call
EvalArgCall ==
    /\ Running
    /\ ctl.c = "run"
    /\ Top.k = "args"
    /\ Top.todo # <<>>
    /\ IsCall(Head(Top.todo))
    /\ Outcome("ok", S,
               [K EXCEPT ![Len(K)].todo = Tail(@)]
                   \o <<[k |-> "args", name |-> Head(Top.todo).name,
                         vals |-> <<>>, todo |-> Head(Top.todo).args]>>,
               RunCtl, called)

\* the call either entered a function body, whose frame goes on the stack, or
\* gave its value (or its error) at once
invoked(r, below) ==
    IF r.err = "ok" /\ r.enter
    THEN Outcome("ok", r.s, Append(below, r.frame), RunCtl, Append(called, r.frame.f))
    ELSE Outcome(r.err, r.s, below, ValCtl(r.v), called)

\* where the run's objects are: known already, or shown for the first time by the
\* text of a Function that print (or a prompt) is about to take
placed(func_name, args) ==
    IF /\ layout = 0
       /\ func_name \in {<<N_print>>, <<N_inputi>>, <<N_inputs>>}
       /\ \E i \in 1..Len(args) : KindOf(heap, args[i]) = "Function"
    THEN Layouts
    ELSE {layout}

\* call_function, once every argument is evaluated
Invoke ==
    /\ Running
    /\ ctl.c = "run"
    /\ Top.k = "args"
    /\ Top.todo = <<>>
    /\ \E at \in placed(Top.name, Top.vals) :
           invoked(call_function(Top.name, Top.vals, CurL, CurB, [S EXCEPT !.layout = at]),
                   SubSeq(K, 1, Len(K) - 1))


\* the two dictionaries a block body runs in: NEW_BLOCK_VARIABLES = {} and
\* NEW_LOCAL_VARIABLES = {**LOCAL_VARIABLES, **BLOCK_VARIABLES}
enter_block(L, B, s) ==
    [s EXCEPT !.heap = Append(Append(@, EmptyDict), DictMerge(s.heap[L], s.heap[B]))]

\* the frame a statement leaves on the stack while the call that is its condition
\* runs; again: the condition is the one evaluated after an iteration (line 528)
CondFrames(statement, again) ==
    <<[k |-> "cond", statement |-> statement, again |-> again],
      [k |-> "args", name |-> statement.condition.name, vals |-> <<>>,
       todo |-> statement.condition.args]>>

\* IF_NODE, lines 486-501: the check of the condition's value v and the choice of
\* the branch; below is the stack the branch is put on
if_taken(statement, v, s, below) ==
    IF KindOf(s.heap, v) = "KeyError" THEN Outcome("crash", s, K, ctl, called)
    ELSE IF KindOf(s.heap, v) # "bool" THEN Outcome("TYPE_ERROR", s, K, ctl, called)
    ELSE Outcome("ok", enter_block(CurL, CurB, s),
                 Append(below, [k |-> "if", L |-> Len(s.heap) + 2, B |-> Len(s.heap) + 1,
                                rest |-> IF Get(s.heap, v).val
                                         THEN statement.statements
                                         ELSE statement.else_statements]),
                 RunCtl, called)

\* IF_NODE, lines 484-501: the condition and the choice of the branch
If ==
    /\ AtStatement("if")
    /\ ~IsCall(Head(Top.rest).condition)
    /\ LET statement == Head(Top.rest)
           c == run_expression(statement.condition, CurL, CurB, S)
       IN IF c.err # "ok" THEN Outcome(c.err, c.s, K, ctl, called)
          ELSE if_taken(statement, c.v, c.s, Taken)

\* IF_NODE, line 484, when the condition is a call: the statement waits for its value
IfCall ==
    /\ AtStatement("if")
    /\ IsCall(Head(Top.rest).condition)
    /\ Outcome("ok", S, Taken \o CondFrames(Head(Top.rest), FALSE), RunCtl, called)

\* IF_NODE, lines 503-509: the body is through
IfExit ==
    /\ Running
    /\ ctl.c = "run"
    /\ Top.k = "if"
    /\ Top.rest = <<>>
    /\ LET below == SubSeq(K, 1, Len(K) - 1) IN
       Outcome("ok", write_back(Top.L, Top.B, below[Len(below)].L, below[Len(below)].B, S),
               below, RunCtl, called)

\* WHILE_NODE, lines 514-536: the check of the first value v of the condition, and
\* the loop entered or passed over
while_taken(statement, v, s, below) ==
    IF KindOf(s.heap, v) = "KeyError" THEN Outcome("crash", s, K, ctl, called)
    ELSE IF KindOf(s.heap, v) # "bool" THEN Outcome("TYPE_ERROR", s, K, ctl, called)
    ELSE IF truthy(Get(s.heap, v))
         THEN Outcome("ok", enter_block(CurL, CurB, s),
                      Append(below, [k |-> "while", L |-> Len(s.heap) + 2, B |-> Len(s.heap) + 1,
                                     rest |-> statement.statements,
                                     condition |-> statement.condition,
                                     statements |-> statement.statements]),
                      RunCtl, called)
         ELSE Outcome("ok",
                      write_back(Len(s.heap) + 2, Len(s.heap) + 1, CurL, CurB,
                                 enter_block(CurL, CurB, s)),
                      below, RunCtl, called)

\* WHILE_NODE, lines 512-523: the first evaluation of the condition
While ==
    /\ AtStatement("while")
    /\ ~IsCall(Head(Top.rest).condition)
    /\ LET statement == Head(Top.rest)
           c == run_expression(statement.condition, CurL, CurB, S)
       IN IF c.err # "ok" THEN Outcome(c.err, c.s, K, ctl, called)
          ELSE while_taken(statement, c.v, c.s, Taken)

\* WHILE_NODE, line 512, when the condition is a call
WhileCall ==
    /\ AtStatement("while")
    /\ IsCall(Head(Top.rest).condition)
    /\ Outcome("ok", S, Taken \o CondFrames(Head(Top.rest), FALSE), RunCtl, called)

\* an iteration that leaves the names of the body's block declared
next_iteration_kept(NEW_BLOCK, s) == s

\* line 527: NEW_BLOCK_VARIABLES.clear() when the body is through
next_iteration(NEW_BLOCK, s) == [s EXCEPT !.heap[NEW_BLOCK] = EmptyDict]

\* WHILE_NODE, lines 523 and 530-536: `while condition.value` on the value v the
\* condition gave after an iteration; frames is the stack with the loop on top
while_again(v, s, frames) ==
    LET loop == frames[Len(frames)]
        below == SubSeq(frames, 1, Len(frames) - 1)
    IN IF KindOf(s.heap, v) = "KeyError" THEN Outcome("crash", s, K, ctl, called)
       ELSE IF truthy(Get(s.heap, v))
            THEN Outcome("ok", s, [frames EXCEPT ![Len(frames)].rest = loop.statements],
                         RunCtl, called)
            ELSE Outcome("ok",
                         write_back(loop.L, loop.B, below[Len(below)].L, below[Len(below)].B, s),
                         below, RunCtl, called)

\* WHILE_NODE, lines 527-536: an iteration is through
WhileIter ==
    /\ Running
    /\ ctl.c = "run"
    /\ Top.k = "while"
    /\ Top.rest = <<>>
    /\ ~IsCall(Top.condition)
    /\ LET c == run_expression(Top.condition, Top.L, Top.B, next_iteration(Top.B, S)) IN
       IF c.err # "ok" THEN Outcome(c.err, c.s, K, ctl, called)
       ELSE while_again(c.v, c.s, K)

\* WHILE_NODE, lines 527-528, when the condition is a call
WhileIterCall ==
    /\ Running
    /\ ctl.c = "run"
    /\ Top.k = "while"
    /\ Top.rest = <<>>
    /\ IsCall(Top.condition)
    /\ Outcome("ok", next_iteration(Top.B, S),
               K \o CondFrames([s |-> "while", condition |-> Top.condition,
                                statements |-> Top.statements], TRUE),
               RunCtl, called)

\* the ReturnSignal reaches call_function: lines 304-334
return_from(val, s) ==
    LET r == return_value_of(K[FnIdx].f, val, s) IN
    Outcome(r.err, r.s, SubSeq(K, 1, FnIdx - 1), ValCtl(r.v), called)

NoValue == [none |-> TRUE]

\* RETURN_NODE without a call in its expression
Return ==
    /\ AtStatement("return")
    /\ ~IsCall(Head(Top.rest).expression)
    /\ LET statement == Head(Top.rest) IN
       IF statement.expression.e = "none" THEN return_from(NoValue, S)
       ELSE LET v == run_expression(statement.expression, CurL, CurB, S) IN
            IF v.err # "ok" THEN Outcome(v.err, v.s, K, ctl, called)
            ELSE return_from(v.v, v.s)

\* RETURN_NODE whose expression is a call
ReturnCall ==
    /\ AtStatement("return")
    /\ IsCall(Head(Top.rest).expression)
    /\ LET statement == Head(Top.rest) IN
       Outcome("ok", S,
               Taken \o <<[k |-> "ret"],
                          [k |-> "args", name |-> statement.expression.name,
                           vals |-> <<>>, todo |-> statement.expression.args]>>,
               RunCtl, called)

\* lines 310-312: the body ran to its end
FunctionEnd ==
    /\ Running
    /\ ctl.c = "run"
    /\ Top.k = "fn"
    /\ Top.rest = <<>>
    /\ return_from(NoValue, S)

\* the value of a call statement is dropped (line 481)
DeliverStmt ==
    /\ Running
    /\ ctl.c = "val"
    /\ Top.k = "stmt"
    /\ Outcome("ok", S, SubSeq(K, 1, Len(K) - 1), RunCtl, called)

\* the assignment goes on with the value of the call (line 394)
DeliverAssign ==
    /\ Running
    /\ ctl.c = "val"
    /\ Top.k = "assign"
    /\ LET r == assign_value(Top.var, ctl.v, CurL, CurB, S) IN
       Outcome(r.err, r.s, SubSeq(K, 1, Len(K) - 1), RunCtl, called)

\* the value of a call that is an argument
DeliverArg ==
    /\ Running
    /\ ctl.c = "val"
    /\ Top.k = "args"
    /\ Outcome("ok", S, [K EXCEPT ![Len(K)].vals = Append(@, ctl.v)], RunCtl, called)

\* the value of a call that is returned (line 541)
DeliverReturn ==
    /\ Running
    /\ ctl.c = "val"
    /\ Top.k = "ret"
    /\ return_from(ctl.v, S)

\* the if statement goes on with the value of the call (line 484)
DeliverIf ==
    /\ Running
    /\ ctl.c = "val"
    /\ Top.k = "cond"
    /\ Top.statement.s = "if"
    /\ if_taken(Top.statement, ctl.v, S, SubSeq(K, 1, Len(K) - 1))

\* the while statement goes on with the first value of the call (line 512)
DeliverWhile ==
    /\ Running
    /\ ctl.c = "val"
    /\ Top.k = "cond"
    /\ Top.statement.s = "while"
    /\ ~Top.again
    /\ while_taken(Top.statement, ctl.v, S, SubSeq(K, 1, Len(K) - 1))

\* the loop goes on with the value the call gave after an iteration (line 528)
DeliverWhileIter ==
    /\ Running
    /\ ctl.c = "val"
    /\ Top.k = "cond"
    /\ Top.statement.s = "while"
    /\ Top.again
    /\ while_again(ctl.v, S, SubSeq(K, 1, Len(K) - 1))

\* main returned to run()
Finish ==
    /\ Running
    /\ ctl.c = "val"
    /\ Top.k = "run"
    /\ status' = "done"
    /\ UNCHANGED <<error_type, program, INTERFACES, FUNCTIONS, funcs, objs, heap, K, ctl, out, called,
                   steps, inp, layout, earlier>>

Exec ==
    \/ VarDef
    \/ BVarDef
    \/ Assign
    \/ AssignCall
    \/ FCall
    \/ EvalArg
    \/ EvalArgCall
    \/ Invoke
    \/ If
    \/ IfCall
    \/ IfExit
    \/ While
    \/ WhileCall
    \/ WhileIter
    \/ WhileIterCall
    \/ Return
    \/ ReturnCall
    \/ FunctionEnd
    \/ DeliverStmt
    \/ DeliverAssign
    \/ DeliverArg
    \/ DeliverReturn
    \/ DeliverIf
    \/ DeliverWhile
    \/ DeliverWhileIter
    \/ Finish

-----------------------------------------------------------------------------
(* Program text: the nodes the parser hands to run() (spec section 6) *)

IntLit(n)  == [e |-> "int", val |-> n]
StrLit(cs) == [e |-> "str", val |-> cs]
BoolLit(b) == [e |-> "bool", val |-> b]
NilLit     == [e |-> "nil"]
ObjLit     == [e |-> "obj"]
NoExpr     == [e |-> "none"]
Var(name)  == [e |-> "var", name |-> <<name>>]
Path(fields) == [e |-> "var", name |-> fields]
Call(name, args) == [e |-> "call", name |-> <<name>>, args |-> args]
CallPath(fields, args) == [e |-> "call", name |-> fields, args |-> args]
Lambda(func) == [e |-> "lambda", func |-> func]
Bin(op, a, b) == [e |-> "bin", op |-> op, op1 |-> a, op2 |-> b]
Not(a) == [e |-> "not", op1 |-> a]
Neg(a) == [e |-> "neg", op1 |-> a]
Convert(to_type, a) == [e |-> "convert", expr |-> a, to_type |-> to_type]

VarDefS(name)  == [s |-> "vardef", name |-> name]
BVarDefS(name) == [s |-> "bvardef", name |-> name]
AssignS(name, expression) == [s |-> "assign", var |-> <<name>>, expression |-> expression]
AssignPathS(fields, expression) == [s |-> "assign", var |-> fields, expression |-> expression]
CallS(name, args) == [s |-> "fcall", name |-> <<name>>, args |-> args]
CallPathS(fields, args) == [s |-> "fcall", name |-> fields, args |-> args]
IfS(c, t, f) == [s |-> "if", condition |-> c, statements |-> t, else_statements |-> f]
WhileS(c, b) == [s |-> "while", condition |-> c, statements |-> b]
ReturnS(expression) == [s |-> "return", expression |-> expression]
PrintS(expression) == CallS(N_print, <<expression>>)

Arg(name, ref) == [name |-> name, ref |-> ref]
Func(name, args, statements) == [name |-> name, args |-> args, statements |-> statements]
FieldVar(name) == [f |-> "var", name |-> name, params |-> <<>>]
FieldFunc(name, params) == [f |-> "func", name |-> name, params |-> params]
Interface(name, fields) == [name |-> name, fields |-> fields]
Program(tag, interfaces, functions) == [tag |-> tag, interfaces |-> interfaces, functions |-> functions]

\* identifiers of the programs below
n_xi == <<"x","i">>
n_yi == <<"y","i">>
n_zi == <<"z","i">>
n_ai == <<"a","i">>
n_bi == <<"b","i">>
n_ti == <<"t","i">>
n_gb == <<"g","b">>
n_swapv == <<"s","w","a","p","v">>
n_xs == <<"x","s">>
n_xb == <<"x","b">>
n_xo == <<"x","o">>
n_xf == <<"x","f">>
n_to == <<"t","o">>
n_cf == <<"c","f">>
n_ii == <<"i","i">>
n_vali == <<"v","a","l","i">>
n_lamv == <<"l","a","m","v">>
n_makef == <<"m","a","k","e","f">>
n_vo == <<"v","o">>
n_ho == <<"h","o">>
n_ro == <<"r","o">>
n_bo == <<"b","o">>
n_bf == <<"b","f">>
n_mf == <<"m","f">>
n_wi == <<"w","i">>
n_fb == <<"f","b">>
n_fi == <<"f","i">>
S_ok == <<"o","k">>
S_in == <<"i","n">>
S_after == <<"a","f","t","e","r">>

-----------------------------------------------------------------------------
(* Pass by reference: swap(ai, bi) with each parameter by reference or not, *)
(* called at the top of main, inside an if or else body, or inside a while *)

SmallInts == {1, 2}

SwapFunc(ra, rb) ==
    Func(n_swapv, <<Arg(n_ai, ra), Arg(n_bi, rb)>>,
         <<VarDefS(n_ti),
           AssignS(n_ti, Var(n_ai)),
           AssignS(n_ai, Var(n_bi)),
           AssignS(n_bi, Var(n_ti))>>)

SwapCall == CallS(n_swapv, <<Var(n_xi), Var(n_yi)>>)

SwapSite(where) ==
    CASE where = "top" -> <<SwapCall>>
      [] where = "if" -> <<IfS(BoolLit(TRUE), <<SwapCall>>, <<>>)>>
      [] where = "else" -> <<IfS(BoolLit(FALSE), <<>>, <<SwapCall>>)>>
      [] where = "while" ->
            <<VarDefS(n_gb), AssignS(n_gb, BoolLit(TRUE)),
              WhileS(Var(n_gb), <<SwapCall, AssignS(n_gb, BoolLit(FALSE))>>)>>

SwapMain(a, b, where) ==
    Func(N_main, <<>>,
         <<VarDefS(n_xi), VarDefS(n_yi), AssignS(n_xi, IntLit(a)), AssignS(n_yi, IntLit(b))>>
         \o SwapSite(where)
         \o <<PrintS(Var(n_xi)), PrintS(Var(n_yi))>>)

SwapTags ==
    {[fam |-> "swap", a |-> a, b |-> b, ra |-> ra, rb |-> rb, where |-> where] :
        a \in SmallInts, b \in SmallInts, ra \in BOOLEAN, rb \in BOOLEAN,
        where \in {"top", "if", "else", "while"}}

SwapProgram(tag) ==
    Program(tag, <<>>, <<SwapFunc(tag.ra, tag.rb), SwapMain(tag.a, tag.b, tag.where)>>)

-----------------------------------------------------------------------------
(* Overloads: the overload set of src/interpreterv3.py's PROG, registered in  *)
(* either order, called from main with every argument list of up to two       *)
(* arguments; main may declare a variable named like the function             *)

n_getValuei == <<"g","e","t","V","a","l","u","e","i">>
n_otheri == <<"o","t","h","e","r","i">>
n_ab == <<"a","b">>
n_ao == <<"a","o">>
n_as == <<"a","s">>
n_af == <<"a","f">>
n_bs == <<"b","s">>
n_ci == <<"c","i">>
n_xA == <<"x","A">>
n_ys == <<"y","s">>

Overloads ==
    <<Func(n_getValuei, <<>>, <<ReturnS(IntLit(100))>>),
      Func(n_getValuei, <<Arg(n_ai, FALSE)>>, <<ReturnS(Bin("+", Var(n_ai), IntLit(50)))>>),
      Func(n_getValuei, <<Arg(n_ab, FALSE)>>,
           <<IfS(Var(n_ab), <<ReturnS(IntLit(200))>>, <<>>), ReturnS(IntLit(300))>>),
      Func(n_getValuei, <<Arg(n_ao, FALSE), Arg(n_bs, FALSE)>>, <<ReturnS(IntLit(400))>>),
      Func(n_getValuei, <<Arg(n_as, FALSE), Arg(n_bi, FALSE)>>,
           <<ReturnS(Bin("+", Var(n_bi), IntLit(10)))>>)>>

Reverse(q) == [i \in 1..Len(q) |-> q[Len(q) + 1 - i]]

ArgExprs ==
    <<IntLit(5), StrLit(<<"a">>), BoolLit(TRUE), ObjLit, Var(n_getValuei), NilLit, Var(n_xi)>>

\* the longest argument list of a call
MaxArgs == 2

\* an argument list, as the indices of its expressions in ArgExprs
ArgLists == UNION {[1..n -> 1..Len(ArgExprs)] : n \in 0..MaxArgs}

ArgsOf(ids) == [i \in 1..Len(ids) |-> ArgExprs[ids[i]]]

DispatchMain(args, shadow) ==
    Func(N_main, <<>>,
         <<VarDefS(n_xi), AssignS(n_xi, IntLit(5))>>
         \o (IF shadow THEN <<VarDefS(n_getValuei)>> ELSE <<>>)
         \o <<PrintS(Call(n_getValuei, args))>>)

DispatchTags ==
    {[fam |-> "dispatch", args |-> args, shadow |-> shadow, rev |-> rev] :
        args \in ArgLists, shadow \in BOOLEAN, rev \in BOOLEAN}

DispatchProgram(tag) ==
    Program(tag, <<>>,
            (IF tag.rev THEN Reverse(Overloads) ELSE Overloads)
            \o <<DispatchMain(ArgsOf(tag.args), tag.shadow)>>)

-----------------------------------------------------------------------------
(* Registration: every sequence of up to MaxDecls declarations, among them    *)
(* ones that differ from another only by `&`, or by an interface letter       *)

Decls ==
    Overloads \o
    <<Func(n_getValuei, <<Arg(n_ci, TRUE)>>, <<ReturnS(IntLit(1))>>),
      Func(n_getValuei, <<Arg(n_xA, FALSE), Arg(n_ys, FALSE)>>, <<ReturnS(IntLit(2))>>),
      Func(n_getValuei, <<Arg(n_af, FALSE)>>, <<ReturnS(IntLit(3))>>),
      Func(n_otheri, <<Arg(n_ai, FALSE)>>, <<ReturnS(IntLit(7))>>)>>

MaxDecls == 3

RegistrationTags ==
    {[fam |-> "reg", decls |-> decls] :
        decls \in UNION {[1..n -> 1..Len(Decls)] : n \in 1..MaxDecls}}

RegistrationProgram(tag) ==
    Program(tag, <<>>, [i \in 1..Len(tag.decls) |-> Decls[tag.decls[i]]])

-----------------------------------------------------------------------------
(* Scope of an if body: the body declares yi, block-scoped or function-scoped, *)
(* assigns it, and assigns variables of the enclosing frames; afterwards the   *)
(* enclosing scope reads or assigns yi.  The if may sit in the body of another *)
(* if, and the enclosing function may have declared yi itself.                 *)

ScopeBody(tag) ==
    <<IF tag.decl = "bvar" THEN BVarDefS(n_yi) ELSE VarDefS(n_yi),
      AssignS(n_yi, IntLit(tag.v)),
      AssignS(n_xi, IntLit(5))>>
    \o (IF tag.nest THEN <<AssignS(n_zi, IntLit(6))>> ELSE <<>>)

ScopeProbe(tag) ==
    IF tag.probe = "assign"
    THEN <<AssignS(n_yi, IntLit(9)), PrintS(Var(n_yi))>>
    ELSE <<PrintS(Var(n_yi))>>

ScopeCore(tag) ==
    <<IfS(BoolLit(tag.cond),
          IF tag.cond THEN ScopeBody(tag) ELSE <<>>,
          IF tag.cond THEN <<>> ELSE ScopeBody(tag)),
      PrintS(Var(n_xi))>>
    \o (IF tag.nest THEN <<PrintS(Var(n_zi))>> ELSE <<>>)
    \o ScopeProbe(tag)

ScopeMain(tag) ==
    Func(N_main, <<>>,
         <<VarDefS(n_xi), AssignS(n_xi, IntLit(1))>>
         \o (IF tag.outer THEN <<VarDefS(n_yi), AssignS(n_yi, IntLit(7))>> ELSE <<>>)
         \o (IF tag.nest
             THEN <<IfS(BoolLit(TRUE),
                        <<BVarDefS(n_zi), AssignS(n_zi, IntLit(1))>> \o ScopeCore(tag),
                        <<>>),
                    PrintS(Var(n_yi))>>
             ELSE ScopeCore(tag)))

ScopeTags ==
    {tag \in [fam : {"scope"}, cond : BOOLEAN, decl : {"bvar", "var"}, outer : BOOLEAN,
              probe : {"read", "assign"}, nest : BOOLEAN, v : SmallInts] :
        ~(tag.outer /\ tag.decl = "var")}

ScopeProgram(tag) == Program(tag, <<>>, <<ScopeMain(tag)>>)

-----------------------------------------------------------------------------
(* Nil: a variable of an object, function or interface type is compared with   *)
(* nil when fresh, after a non-nil value was assigned, and after nil was       *)
(* assigned again                                                              *)

NilVar(tag) ==
    CASE tag.t = "o" -> n_xo
      [] tag.t = "f" -> n_xf
      [] tag.t = "A" -> n_xA

NilCompare(tag, op) ==
    IF tag.flip THEN PrintS(Bin(op, NilLit, Var(NilVar(tag))))
    ELSE PrintS(Bin(op, Var(NilVar(tag)), NilLit))

NilFill(tag) ==
    CASE tag.t = "o" -> <<AssignS(n_xo, ObjLit)>>
      [] tag.t = "f" -> <<AssignS(n_xf, Lambda(Func(n_lamv, <<>>, <<>>)))>>
      [] tag.t = "A" -> <<VarDefS(n_to), AssignS(n_to, ObjLit),
                          AssignPathS(<<n_to, n_vali>>, IntLit(1)),
                          AssignS(n_xA, Var(n_to))>>

NilMain(tag) ==
    Func(N_main, <<>>,
         <<VarDefS(NilVar(tag)), NilCompare(tag, "=="), NilCompare(tag, "!=")>>
         \o NilFill(tag)
         \o <<NilCompare(tag, "=="), NilCompare(tag, "!="),
              AssignS(NilVar(tag), NilLit), NilCompare(tag, "==")>>)

NilTags == [fam : {"nil"}, t : {"o", "f", "A"}, flip : BOOLEAN]

NilProgram(tag) ==
    Program(tag,
            IF tag.t = "A" THEN <<Interface(<<"A">>, <<FieldVar(n_vali)>>)>> ELSE <<>>,
            <<NilMain(tag)>>)

-----------------------------------------------------------------------------
(* Closures: a lambda is created while a variable holds one value, the        *)
(* variable is given another, and the closure is called.  The variable is a   *)
(* local of main, a loop counter, or a by-reference parameter of the function *)
(* that creates the lambda; the assignment is main's, or the closure's own.   *)

ClosureVar(t) ==
    CASE t = "i" -> n_xi
      [] t = "s" -> n_xs
      [] t = "b" -> n_xb
      [] t = "o" -> n_xo

ClosureParam(t) ==
    CASE t = "i" -> n_ai
      [] t = "s" -> n_as
      [] t = "b" -> n_ab
      [] t = "o" -> n_ao

\* the value at creation, and the value assigned afterwards
ClosureFirst(t) ==
    CASE t = "i" -> IntLit(1)
      [] t = "s" -> StrLit(<<"a">>)
      [] t = "b" -> BoolLit(TRUE)
      [] t = "o" -> NilLit

ClosureSecond(t) ==
    CASE t = "i" -> IntLit(2)
      [] t = "s" -> StrLit(<<"b">>)
      [] t = "b" -> BoolLit(FALSE)
      [] t = "o" -> ObjLit

\* print the variable; for nil, print whether it is nil
Observe(t, name) ==
    IF t = "o" THEN PrintS(Bin("==", Var(name), NilLit)) ELSE PrintS(Var(name))

ClosureLambda(tag, name) ==
    Lambda(Func(n_lamv, <<>>,
                (IF tag.inside THEN <<AssignS(name, ClosureSecond(tag.t))>> ELSE <<>>)
                \o <<Observe(tag.t, name)>>))

\* makef(&a): an object parameter is set to nil before the lambda is created
ClosureMaker(tag) ==
    Func(n_makef, <<Arg(ClosureParam(tag.t), TRUE)>>,
         (IF tag.t = "o" THEN <<AssignS(n_ao, NilLit)>> ELSE <<>>)
         \o <<ReturnS(ClosureLambda(tag, ClosureParam(tag.t)))>>)

ClosureMain(tag) ==
    LET x == ClosureVar(tag.t) IN
    Func(N_main, <<>>,
         <<VarDefS(x), VarDefS(n_cf)>>
         \o (IF tag.shape = "param"
             THEN <<AssignS(x, IF tag.t = "o" THEN ObjLit ELSE ClosureFirst(tag.t)),
                    AssignS(n_cf, Call(n_makef, <<Var(x)>>))>>
             ELSE <<AssignS(x, ClosureFirst(tag.t)), AssignS(n_cf, ClosureLambda(tag, x))>>)
         \o (IF tag.inside THEN <<>> ELSE <<AssignS(x, ClosureSecond(tag.t))>>)
         \o <<CallS(n_cf, <<>>), Observe(tag.t, x)>>)

\* the number of iterations of the loop
LoopCount == 3

\* the lambda is created in the iteration in which the counter is 1
LoopMain ==
    Func(N_main, <<>>,
         <<VarDefS(n_ii), VarDefS(n_cf),
           WhileS(Bin("<", Var(n_ii), IntLit(LoopCount)),
                  <<IfS(Bin("==", Var(n_ii), IntLit(1)),
                        <<AssignS(n_cf, Lambda(Func(n_lamv, <<>>, <<PrintS(Var(n_ii))>>)))>>,
                        <<>>),
                    AssignS(n_ii, Bin("+", Var(n_ii), IntLit(1)))>>),
           CallS(n_cf, <<>>),
           PrintS(Var(n_ii))>>)

ClosureTags ==
    [fam : {"closure"}, shape : {"local", "param"}, t : {"i", "s", "b", "o"}, inside : BOOLEAN]
    \cup {[fam |-> "closure", shape |-> "loop", t |-> "i", inside |-> FALSE]}

ClosureProgram(tag) ==
    Program(tag, <<>>,
            CASE tag.shape = "loop" -> <<LoopMain>>
              [] tag.shape = "param" -> <<ClosureMaker(tag), ClosureMain(tag)>>
              [] tag.shape = "local" -> <<ClosureMain(tag)>>)

-----------------------------------------------------------------------------
(* Interfaces A {vali;}, B {wi;} and C {mf();} *)

n_giveo == <<"g","i","v","e","o">>

InterfaceA == Interface(<<"A">>, <<FieldVar(n_vali)>>)
InterfaceB == Interface(<<"B">>, <<FieldVar(n_wi)>>)
InterfaceC == Interface(<<"C">>, <<FieldFunc(n_mf, <<>>)>>)

\* the statements that build the object of variable vo
BuildObject(value) ==
    <<VarDefS(n_vo), AssignS(n_vo, ObjLit)>>
    \o CASE value = "vali" -> <<AssignPathS(<<n_vo, n_vali>>, IntLit(1))>>
          [] value = "mnil" -> <<AssignPathS(<<n_vo, n_mf>>, NilLit)>>
          [] value = "mfun" -> <<AssignPathS(<<n_vo, n_mf>>, Lambda(Func(n_lamv, <<>>, <<>>)))>>
          [] OTHER -> <<>>

\* an object is passed to take<f>(p<X>): the function's name ends in v or in an
\* interface letter, the parameter's name in an interface letter
ArgProgram(tag) ==
    Program(tag, <<InterfaceA, InterfaceB>>,
            <<Func(<<"t","a","k","e",tag.f>>, <<Arg(<<"p",tag.p>>, FALSE)>>,
                   <<PrintS(StrLit(S_in))>>),
              Func(N_main, <<>>,
                   BuildObject(IF tag.has THEN "vali" ELSE "empty")
                   \o <<CallS(<<"t","a","k","e",tag.f>>, <<Var(n_vo)>>),
                        PrintS(StrLit(S_after))>>)>>)

ArgTags == [fam : {"ifarg"}, f : {"v", "A", "B"}, p : {"A", "B"}, has : BOOLEAN]

\* a value is assigned to x<X>, or to the field ho.x<X>, or returned by make<X>()
DestValue(value) ==
    CASE value = "nil" -> NilLit
      [] value = "int" -> IntLit(5)
      [] OTHER -> Var(n_vo)

DestProgram(tag) ==
    Program(tag, <<InterfaceA, InterfaceC>>,
            CASE tag.dest = "plain" ->
                   <<Func(N_main, <<>>,
                          BuildObject(tag.value)
                          \o <<VarDefS(<<"x",tag.x>>),
                               AssignS(<<"x",tag.x>>, DestValue(tag.value)),
                               PrintS(StrLit(S_ok))>>)>>
              [] tag.dest = "dotted" ->
                   <<Func(N_main, <<>>,
                          BuildObject(tag.value)
                          \o <<VarDefS(n_ho), AssignS(n_ho, ObjLit),
                               AssignPathS(<<n_ho, <<"x",tag.x>>>>, DestValue(tag.value)),
                               PrintS(StrLit(S_ok))>>)>>
              [] tag.dest = "return" ->
                   <<Func(<<"m","a","k","e",tag.x>>, <<>>,
                          BuildObject(tag.value) \o <<ReturnS(DestValue(tag.value))>>),
                     Func(N_main, <<>>,
                          <<VarDefS(n_ro),
                            AssignS(n_ro, Call(<<"m","a","k","e",tag.x>>, <<>>)),
                            PrintS(StrLit(S_ok))>>)>>
              [] tag.dest = "returned" ->
                   <<Func(n_giveo, <<>>,
                          BuildObject(tag.value) \o <<ReturnS(DestValue(tag.value))>>),
                     Func(<<"m","a","k","e",tag.x>>, <<>>,
                          <<ReturnS(Call(n_giveo, <<>>))>>),
                     Func(N_main, <<>>,
                          <<VarDefS(n_ro),
                            AssignS(n_ro, Call(<<"m","a","k","e",tag.x>>, <<>>)),
                            PrintS(StrLit(S_ok))>>)>>)

\* make<X>() also returns the result of the call giveo(), for every object value
DestTags ==
    [fam : {"ifdest"}, dest : {"plain", "dotted", "return"}, x : {"A", "C"},
     value : {"nil", "int", "empty", "vali", "mnil", "mfun"}]
    \cup [fam : {"ifdest"}, dest : {"returned"}, x : {"A", "C"},
          value : {"nil", "empty", "vali", "mnil", "mfun"}]

-----------------------------------------------------------------------------
(* Assignment: x<d>, or the field ho.x<d>, is assigned a value of every kind, *)
(* the result of print, and the results of fb() and fi()                      *)

AssignedExpr(rhs) ==
    CASE rhs = "int" -> IntLit(5)
      [] rhs = "str" -> StrLit(<<"a">>)
      [] rhs = "bool" -> BoolLit(TRUE)
      [] rhs = "nil" -> NilLit
      [] rhs = "obj" -> ObjLit
      [] rhs = "fun" -> Lambda(Func(n_lamv, <<>>, <<>>))
      [] rhs = "void" -> Call(N_print, <<StrLit(<<"p">>)>>)
      [] rhs = "callb" -> Call(n_fb, <<>>)
      [] rhs = "calli" -> Call(n_fi, <<>>)

AssignProgram(tag) ==
    Program(tag, <<>>,
            <<Func(n_fb, <<>>, <<ReturnS(BoolLit(TRUE))>>),
              Func(n_fi, <<>>, <<ReturnS(IntLit(3))>>),
              Func(N_main, <<>>,
                   <<VarDefS(n_ho), AssignS(n_ho, ObjLit), VarDefS(<<"x",tag.d>>),
                     IF tag.dotted
                     THEN AssignPathS(<<n_ho, <<"x",tag.d>>>>, AssignedExpr(tag.rhs))
                     ELSE AssignS(<<"x",tag.d>>, AssignedExpr(tag.rhs)),
                     PrintS(StrLit(S_ok))>>)>>)

AssignTags ==
    [fam : {"asg"}, d : {"i", "s", "b", "o", "f"}, dotted : BOOLEAN,
     rhs : {"int", "str", "bool", "nil", "obj", "fun", "void", "callb", "calli"}]

-----------------------------------------------------------------------------
(* Dotted paths: ao.ci, or ao.<m>.ci, is read or assigned while ao holds nil  *)
(* or an object, the middle field is absent or holds nil, an Int, a Function  *)
(* or an object, and the final field is absent or present                     *)

PathOf(tag) ==
    CASE tag.mid = "none" -> <<n_ao, n_ci>>
      [] tag.mid = "int" -> <<n_ao, n_bi, n_ci>>
      [] tag.mid = "fun" -> <<n_ao, n_bf, n_ci>>
      [] OTHER -> <<n_ao, n_bo, n_ci>>

PathSetup(tag) ==
    IF tag.base = "nil" THEN <<>>
    ELSE <<AssignS(n_ao, ObjLit)>>
         \o CASE tag.mid = "nil" -> <<AssignPathS(<<n_ao, n_bo>>, NilLit)>>
               [] tag.mid = "int" -> <<AssignPathS(<<n_ao, n_bi>>, IntLit(5))>>
               [] tag.mid = "fun" ->
                     <<AssignPathS(<<n_ao, n_bf>>, Lambda(Func(n_lamv, <<>>, <<>>)))>>
               [] tag.mid = "obj" -> <<AssignPathS(<<n_ao, n_bo>>, ObjLit)>>
               [] OTHER -> <<>>
         \o (IF tag.fin THEN <<AssignPathS(PathOf(tag), IntLit(1))>> ELSE <<>>)

PathUse(tag) ==
    CASE tag.op = "read" -> <<PrintS(Path(PathOf(tag)))>>
      [] tag.op = "assign" -> <<AssignPathS(PathOf(tag), IntLit(2)), PrintS(Path(PathOf(tag)))>>
      [] tag.op = "assign_s" -> <<AssignPathS(PathOf(tag), StrLit(<<"s">>)), PrintS(StrLit(S_ok))>>

PathProgram(tag) ==
    Program(tag, <<>>, <<Func(N_main, <<>>, <<VarDefS(n_ao)>> \o PathSetup(tag) \o PathUse(tag))>>)

PathTags ==
    {tag \in [fam : {"path"}, base : {"nil", "obj"},
              mid : {"none", "absent", "nil", "int", "fun", "obj"}, fin : BOOLEAN,
              op : {"read", "assign", "assign_s"}] :
        /\ tag.fin => tag.base = "obj" /\ tag.mid \in {"none", "obj"}
        /\ tag.base = "nil" => tag.mid \in {"none", "obj"}}

-----------------------------------------------------------------------------
(* Aliasing: main's object ao (field ci = 1) gets a second holder: the        *)
(* variable bo, the field ho.bo, the parameter po of setv, a closure that     *)
(* captured ao, or a closure that captured the by-reference parameter po of   *)
(* makef.  Then ci is written through the holder or through ao and read       *)
(* through both; or the holder is first given a new object.                   *)

n_po == <<"p","o">>
n_setv == <<"s","e","t","v">>

\* the holder's statements: re-assign it, write ci through it, read ci through it
AliasBody(tag, fields) ==
    (IF tag.reassign THEN <<AssignPathS(fields, ObjLit)>> ELSE <<>>)
    \o (IF tag.via = "holder" \/ tag.reassign
        THEN <<AssignPathS(fields \o <<n_ci>>, IntLit(IF tag.reassign THEN 9 ELSE 2))>>
        ELSE <<>>)
    \o <<PrintS(Path(fields \o <<n_ci>>))>>

AliasOrigin(tag) ==
    IF tag.via = "origin" THEN <<AssignPathS(<<n_ao, n_ci>>, IntLit(2))>> ELSE <<>>

AliasLambda(tag, name) == Lambda(Func(n_lamv, <<>>, AliasBody(tag, <<name>>)))

AliasMain(tag) ==
    Func(N_main, <<>>,
         <<VarDefS(n_ao), AssignS(n_ao, ObjLit), AssignPathS(<<n_ao, n_ci>>, IntLit(1))>>
         \o (CASE tag.holder = "var" ->
                   <<VarDefS(n_bo), AssignS(n_bo, Var(n_ao))>>
                   \o AliasOrigin(tag) \o AliasBody(tag, <<n_bo>>)
              [] tag.holder = "field" ->
                   <<VarDefS(n_ho), AssignS(n_ho, ObjLit),
                     AssignPathS(<<n_ho, n_bo>>, Var(n_ao))>>
                   \o AliasOrigin(tag) \o AliasBody(tag, <<n_ho, n_bo>>)
              [] tag.holder = "param" ->
                   <<CallS(n_setv, <<Var(n_ao)>>)>>
              [] tag.holder = "closure" ->
                   <<VarDefS(n_cf), AssignS(n_cf, AliasLambda(tag, n_ao))>>
                   \o AliasOrigin(tag) \o <<CallS(n_cf, <<>>)>>
              [] tag.holder = "refclosure" ->
                   <<VarDefS(n_cf), AssignS(n_cf, Call(n_makef, <<Var(n_ao)>>))>>
                   \o AliasOrigin(tag) \o <<CallS(n_cf, <<>>)>>)
         \o <<PrintS(Path(<<n_ao, n_ci>>))>>)

AliasProgram(tag) ==
    Program(tag, <<>>,
            CASE tag.holder = "param" ->
                   <<Func(n_setv, <<Arg(n_po, FALSE)>>, AliasBody(tag, <<n_po>>)), AliasMain(tag)>>
              [] tag.holder = "refclosure" ->
                   <<Func(n_makef, <<Arg(n_po, TRUE)>>, <<ReturnS(AliasLambda(tag, n_po))>>),
                     AliasMain(tag)>>
              [] OTHER -> <<AliasMain(tag)>>)

\* a parameter holds the object only during the call, so main cannot write meanwhile
AliasTags ==
    {tag \in [fam : {"alias"}, holder : {"var", "field", "param", "closure", "refclosure"},
              via : {"holder", "origin"}, reassign : BOOLEAN] :
        /\ tag.holder = "param" => tag.via = "holder"
        /\ tag.reassign => tag.via = "holder"}

-----------------------------------------------------------------------------
(* Interface declarations: every sequence of up to MaxInterfaces of the        *)
(* declarations below, followed by a main that prints ok                       *)

n_valv == <<"v","a","l","v">>
n_mA == <<"m","A">>

InterfaceDecls ==
    <<InterfaceA,
      InterfaceB,
      Interface(<<"B">>, <<FieldVar(n_wi), FieldVar(n_xA)>>),
      Interface(<<"A">>, <<FieldVar(<<"x","B">>)>>),
      Interface(<<"A">>, <<FieldVar(n_xA)>>),
      Interface(<<"a">>, <<FieldVar(n_vali)>>),
      Interface(<<"A","B">>, <<FieldVar(n_vali)>>),
      Interface(<<"A">>, <<FieldVar(n_mf), FieldFunc(n_mf, <<>>)>>),
      Interface(<<"A">>, <<FieldVar(n_valv)>>),
      Interface(<<"C">>, <<FieldFunc(n_mA, <<Arg(<<"p","B">>, FALSE)>>)>>)>>

MaxInterfaces == 2

InterfaceTags ==
    {[fam |-> "iface", ifaces |-> ifaces] :
        ifaces \in UNION {[1..n -> 1..Len(InterfaceDecls)] : n \in 1..MaxInterfaces}}

InterfaceProgram(tag) ==
    Program(tag, [i \in 1..Len(tag.ifaces) |-> InterfaceDecls[tag.ifaces[i]]],
            <<Func(N_main, <<>>, <<PrintS(StrLit(S_ok))>>)>>)

-----------------------------------------------------------------------------
(* Satisfaction: interface M {mf(<params>);} against an object whose entry mf  *)
(* is absent, nil, or a lambda with every parameter list below; or against nil *)

\* parameter lists, named with the given first letter
ParamLists(c) ==
    <<<<>>,
      <<Arg(<<c,"i">>, FALSE)>>,
      <<Arg(<<c,"i">>, TRUE)>>,
      <<Arg(<<c,"s">>, FALSE)>>,
      <<Arg(<<c,"o">>, FALSE)>>,
      <<Arg(<<c,"A">>, FALSE)>>,
      <<Arg(<<c,"B">>, FALSE)>>,
      <<Arg(<<c,"i">>, FALSE), Arg(<<c,"s">>, FALSE)>>>>

\* what the object holds: one of the lambdas, or
EntryAbsent == Len(ParamLists("q")) + 1
EntryNil == Len(ParamLists("q")) + 2
ObjectNil == Len(ParamLists("q")) + 3

SatisfactionProgram(tag) ==
    Program(tag,
            <<InterfaceA, InterfaceB,
              Interface(<<"M">>, <<FieldFunc(n_mf, ParamLists("p")[tag.ip])>>)>>,
            <<Func(N_main, <<>>,
                   <<VarDefS(n_vo)>>
                   \o (IF tag.oe = ObjectNil THEN <<>> ELSE <<AssignS(n_vo, ObjLit)>>)
                   \o (IF tag.oe = EntryNil THEN <<AssignPathS(<<n_vo, n_mf>>, NilLit)>>
                       ELSE IF tag.oe \in {EntryAbsent, ObjectNil} THEN <<>>
                       ELSE <<AssignPathS(<<n_vo, n_mf>>,
                                          Lambda(Func(n_lamv, ParamLists("q")[tag.oe], <<>>)))>>)
                   \o <<VarDefS(<<"x","M">>), AssignS(<<"x","M">>, Var(n_vo)),
                        PrintS(StrLit(S_ok))>>)>>)

SatisfactionTags == [fam : {"sat"}, ip : 1..Len(ParamLists("p")), oe : 1..ObjectNil]

-----------------------------------------------------------------------------
(* Returns: get<r>(), or main itself, prints in, then falls through, or        *)
(* returns nothing or a value of every kind, at the top of its body or inside  *)
(* an if, a while, or an if inside a while; every body goes on with print      *)
(* later.  main prints what get<r>() gave.                                     *)

S_later == <<"l","a","t","e","r">>

ReturnedExpr(how) ==
    CASE how = "bare" -> NoExpr
      [] how = "int" -> IntLit(5)
      [] how = "str" -> StrLit(<<"a">>)
      [] how = "bool" -> BoolLit(TRUE)
      [] how = "nil" -> NilLit
      [] how = "obj" -> ObjLit
      [] how = "fun" -> Lambda(Func(n_lamv, <<>>, <<>>))

ReturnSite(tag) ==
    LET body == <<ReturnS(ReturnedExpr(tag.how)), PrintS(StrLit(S_later))>> IN
    CASE tag.depth = "top" -> body
      [] tag.depth = "if" -> <<IfS(BoolLit(TRUE), body, <<>>)>>
      [] tag.depth = "while" -> <<WhileS(BoolLit(TRUE), body)>>
      [] tag.depth = "ifwhile" ->
            <<WhileS(BoolLit(TRUE), <<IfS(BoolLit(TRUE), body, <<>>), PrintS(StrLit(S_later))>>)>>

ReturningBody(tag) ==
    <<PrintS(StrLit(S_in))>>
    \o (IF tag.how = "fall" THEN <<>> ELSE ReturnSite(tag))
    \o <<PrintS(StrLit(S_later))>>

ReturnProgram(tag) ==
    LET get == <<"g","e","t",tag.r>>
        rv == <<"r",tag.r>>
    IN Program(tag, <<InterfaceA>>,
               IF tag.r = "main" THEN <<Func(N_main, <<>>, ReturningBody(tag))>>
               ELSE <<Func(get, <<>>, ReturningBody(tag)),
                      Func(N_main, <<>>,
                           IF tag.r = "v" THEN <<CallS(get, <<>>), PrintS(StrLit(S_ok))>>
                           ELSE <<VarDefS(rv), AssignS(rv, Call(get, <<>>)),
                                  IF tag.r \in {"i", "s", "b"} THEN PrintS(Var(rv))
                                  ELSE PrintS(Bin("==", Var(rv), NilLit))>>)>>)

\* getA() returning an object without vali is left to the interface check
ReturnTags ==
    {tag \in [fam : {"ret"}, r : {"i", "s", "b", "o", "f", "A", "v", "main"},
              how : {"fall", "bare", "int", "str", "bool", "nil", "obj", "fun"},
              depth : {"top", "if", "while", "ifwhile"}] :
        /\ tag.how = "fall" => tag.depth = "top"
        /\ tag.how \notin {"fall", "bare"} => tag.depth \in {"top", "ifwhile"}
        /\ ~(tag.r = "A" /\ tag.how = "obj")}

-----------------------------------------------------------------------------
(* Undefined names: main reads or assigns zi or zo.ci, which nobody declared,  *)
(* calls nopev or nopei, which nobody defined, or uses the letter Z, which no  *)
(* interface bears: in x<Z> = ..., in ho.x<Z> = ..., or as the last letter of  *)
(* makeZ.  Only interface A is registered.                                     *)

n_zo == <<"z","o">>
n_nopev == <<"n","o","p","e","v">>
n_nopei == <<"n","o","p","e","i">>
n_makeZ == <<"m","a","k","e","Z">>
n_xZ == <<"x","Z">>

UndefinedUse(use) ==
    CASE use = "read" -> <<PrintS(Var(n_zi))>>
      [] use = "read_path" -> <<PrintS(Path(<<n_zo, n_ci>>))>>
      [] use = "read_in_if" -> <<IfS(BoolLit(TRUE), <<PrintS(Var(n_zi))>>, <<>>)>>
      [] use = "assign" -> <<AssignS(n_zi, IntLit(1))>>
      [] use = "assign_path" -> <<AssignPathS(<<n_zo, n_ci>>, IntLit(1))>>
      [] use = "call" -> <<CallS(n_nopev, <<>>)>>
      [] use = "call_args" -> <<CallS(n_nopev, <<IntLit(1)>>)>>
      [] use = "call_value" -> <<VarDefS(n_xi), AssignS(n_xi, Call(n_nopei, <<>>))>>
      [] use = "letter_var" -> <<VarDefS(n_xZ), AssignS(n_xZ, ObjLit)>>
      [] use = "letter_var_nil" -> <<VarDefS(n_xZ), AssignS(n_xZ, NilLit)>>
      [] use = "letter_field" ->
            <<VarDefS(n_ho), AssignS(n_ho, ObjLit), AssignPathS(<<n_ho, n_xZ>>, ObjLit)>>
      [] use = "letter_return" -> <<VarDefS(n_ro), AssignS(n_ro, Call(n_makeZ, <<>>))>>
      [] use = "letter_return_end" -> <<CallS(n_makeZ, <<>>)>>

UndefinedProgram(tag) ==
    Program(tag, <<InterfaceA>>,
            (CASE tag.use = "letter_return" -> <<Func(n_makeZ, <<>>, <<ReturnS(ObjLit)>>)>>
               [] tag.use = "letter_return_end" -> <<Func(n_makeZ, <<>>, <<>>)>>
               [] OTHER -> <<>>)
            \o <<Func(N_main, <<>>, UndefinedUse(tag.use) \o <<PrintS(StrLit(S_ok))>>)>>)

UndefinedTags ==
    [fam : {"undef"},
     use : {"read", "read_path", "read_in_if", "assign", "assign_path", "call", "call_args",
            "call_value", "letter_var", "letter_var_nil", "letter_field", "letter_return",
            "letter_return_end"}]

-----------------------------------------------------------------------------
(* Host input and texts: main adds two numbers read by inputi, echoes a line  *)
(* read by inputs after a prompt, branches on a number read, or prints a      *)
(* Function: main itself, or a lambda held by cf                               *)

ShownProgram(tag) ==
    Program(tag, <<>>,
            <<Func(N_main, <<>>,
                   CASE tag.show = "sum" ->
                          <<VarDefS(n_xi), AssignS(n_xi, Call(N_inputi, <<>>)),
                            VarDefS(n_yi), AssignS(n_yi, Call(N_inputi, <<>>)),
                            PrintS(Bin("+", Var(n_xi), Var(n_yi)))>>
                     [] tag.show = "echo" ->
                          <<VarDefS(n_xs), AssignS(n_xs, Call(N_inputs, <<StrLit(<<"?">>)>>)),
                            PrintS(Var(n_xs))>>
                     [] tag.show = "branch" ->
                          <<VarDefS(n_xi), AssignS(n_xi, Call(N_inputi, <<>>)),
                            IfS(Bin("<", Var(n_xi), IntLit(5)),
                                <<PrintS(StrLit(S_in))>>, <<PrintS(StrLit(S_after))>>)>>
                     [] tag.show = "function" ->
                          <<PrintS(Var(N_main)), PrintS(StrLit(S_ok))>>
                     [] tag.show = "lambda" ->
                          <<VarDefS(n_cf), AssignS(n_cf, Lambda(Func(n_lamv, <<>>, <<>>))),
                            PrintS(Var(n_cf)), PrintS(Var(n_cf))>>)>>)

\* lines of host input
Lines == {<<"3">>, <<"1","2">>, <<"x">>}

ShownTags ==
    [fam : {"shown"}, show : {"sum"}, lines : Lines \X Lines]
    \cup [fam : {"shown"}, show : {"echo", "branch"}, lines : {<<line>> : line \in Lines}]
    \cup [fam : {"shown"}, show : {"function", "lambda"}, lines : {<<>>}]

-----------------------------------------------------------------------------
(* A closure called twice: main declares ao and cf, makes a lambda whose body  *)
(* declares ti (function-scoped or block-scoped), or has a parameter ai, or    *)
(* neither, and calls it twice through cf or through the field ao.mf; or the   *)
(* closure calls itself once through ao.mf                                      *)

TwiceArgs(tag) == IF tag.decl = "param" THEN <<IntLit(1)>> ELSE <<>>

TwiceLambda(tag) ==
    Lambda(Func(n_lamv,
                IF tag.decl = "param" THEN <<Arg(n_ai, FALSE)>> ELSE <<>>,
                (CASE tag.decl = "var" -> <<VarDefS(n_ti)>>
                   [] tag.decl = "bvar" -> <<BVarDefS(n_ti)>>
                   [] OTHER -> <<>>)
                \o <<PrintS(StrLit(S_in))>>
                \o (IF tag.via = "recursive"
                    THEN <<AssignPathS(<<n_ao, n_ci>>, Bin("+", Path(<<n_ao, n_ci>>), IntLit(1))),
                           IfS(Bin("<", Path(<<n_ao, n_ci>>), IntLit(2)),
                               <<CallPathS(<<n_ao, n_mf>>, TwiceArgs(tag))>>, <<>>)>>
                    ELSE <<>>)))

TwiceProgram(tag) ==
    Program(tag, <<>>,
            <<Func(N_main, <<>>,
                   <<VarDefS(n_ao), VarDefS(n_cf), AssignS(n_ao, ObjLit),
                     AssignPathS(<<n_ao, n_ci>>, IntLit(0))>>
                   \o (CASE tag.via = "variable" ->
                              <<AssignS(n_cf, TwiceLambda(tag)),
                                CallS(n_cf, TwiceArgs(tag)), CallS(n_cf, TwiceArgs(tag))>>
                         [] tag.via = "method" ->
                              <<AssignPathS(<<n_ao, n_mf>>, TwiceLambda(tag)),
                                CallPathS(<<n_ao, n_mf>>, TwiceArgs(tag)),
                                CallPathS(<<n_ao, n_mf>>, TwiceArgs(tag))>>
                         [] tag.via = "recursive" ->
                              <<AssignPathS(<<n_ao, n_mf>>, TwiceLambda(tag)),
                                CallPathS(<<n_ao, n_mf>>, TwiceArgs(tag))>>)
                   \o <<PrintS(StrLit(S_ok))>>)>>)

TwiceTags ==
    [fam : {"twice"}, decl : {"none", "var", "bvar", "param"},
     via : {"variable", "method", "recursive"}]

-----------------------------------------------------------------------------
(* A loop: main declares xi (function-scoped) and yi (block-scoped) and runs a  *)
(* loop, at the top of main or in an if body that declares zi block-scoped; the *)
(* loop's body declares ti (block-scoped or function-scoped), prints ti and xi, *)
(* and assigns ti and the enclosing variables; the condition reads xi or yi.    *)
(* After the loop the enclosing variables are printed and ti is read, assigned, *)
(* declared again, or left alone                                                *)

LoopBody(tag) ==
    <<IF tag.decl = "bvar" THEN BVarDefS(n_ti) ELSE VarDefS(n_ti),
      CallS(N_print, <<Var(n_ti), Var(n_xi)>>),
      AssignS(n_ti, Bin("+", Var(n_xi), IntLit(1))),
      AssignS(n_xi, Var(n_ti)),
      AssignS(n_yi, Bin("+", Var(n_yi), IntLit(2)))>>
    \o (IF tag.where = "if" THEN <<AssignS(n_zi, Bin("+", Var(n_zi), IntLit(3)))>> ELSE <<>>)

LoopCondition(tag) ==
    IF tag.cond = "local" THEN Bin("<", Var(n_xi), IntLit(LoopCount))
    ELSE Bin("<", Var(n_yi), IntLit(2 * LoopCount))

\* what follows the loop in the block the loop stands in
LoopAfter(tag) ==
    <<CallS(N_print, <<Var(n_xi), Var(n_yi)>>)>>
    \o (CASE tag.after = "read" -> <<PrintS(Var(n_ti))>>
          [] tag.after = "write" -> <<AssignS(n_ti, IntLit(1))>>
          [] tag.after = "declare" -> <<BVarDefS(n_ti), PrintS(Var(n_ti))>>
          [] OTHER -> <<>>)

LoopProgram(tag) ==
    Program(tag, <<>>,
            <<Func(N_main, <<>>,
                   <<VarDefS(n_xi), BVarDefS(n_yi)>>
                   \o (IF tag.where = "if"
                       THEN <<IfS(BoolLit(TRUE),
                                  <<BVarDefS(n_zi), WhileS(LoopCondition(tag), LoopBody(tag))>>
                                  \o LoopAfter(tag) \o <<PrintS(Var(n_zi))>>,
                                  <<>>),
                              CallS(N_print, <<Var(n_xi), Var(n_yi)>>)>>
                       ELSE <<WhileS(LoopCondition(tag), LoopBody(tag))>> \o LoopAfter(tag)))>>)

LoopTags ==
    [fam : {"loop"}, decl : {"bvar", "var"}, cond : {"local", "block"}, where : {"fn", "if"},
     after : {"none", "read", "write", "declare"}]

-----------------------------------------------------------------------------
(* A condition that is a call: main holds three function variables, cf (the     *)
(* condition cf() of a while or of an if), af and bf; the loop's body prints,   *)
(* and hands cf the function of af and af the function of bf (which returns     *)
(* false), so that the second evaluation of the condition calls the function    *)
(* that the tag names as the later one and the third, if any, gives false       *)

n_trueb == <<"t","r","u","e","b">>
n_falseb == <<"f","a","l","s","e","b">>
n_onei == <<"o","n","e","i">>
n_zeroi == <<"z","e","r","o","i">>
n_texts == <<"t","e","x","t","s">>
n_nilo == <<"n","i","l","o">>

\* the functions a condition may call, by what they give
Givers == {"true", "false", "int", "zero", "str", "nil", "void"}

GiverName(g) ==
    CASE g = "true" -> n_trueb
      [] g = "false" -> n_falseb
      [] g = "int" -> n_onei
      [] g = "zero" -> n_zeroi
      [] g = "str" -> n_texts
      [] g = "nil" -> n_nilo
      [] g = "void" -> n_nopev

GiverFunctions ==
    <<Func(n_trueb, <<>>, <<ReturnS(BoolLit(TRUE))>>),
      Func(n_falseb, <<>>, <<ReturnS(BoolLit(FALSE))>>),
      Func(n_onei, <<>>, <<ReturnS(IntLit(1))>>),
      Func(n_zeroi, <<>>, <<>>),
      Func(n_texts, <<>>, <<ReturnS(StrLit(S_ok))>>),
      Func(n_nilo, <<>>, <<>>),
      Func(n_nopev, <<>>, <<>>)>>

ConditionProgram(tag) ==
    Program(tag, <<>>,
            <<Func(N_main, <<>>,
                   <<VarDefS(n_cf), VarDefS(n_af), VarDefS(n_bf),
                     AssignS(n_cf, Var(GiverName(tag.first))),
                     AssignS(n_af, Var(GiverName(tag.later))),
                     AssignS(n_bf, Var(n_falseb)),
                     IF tag.stmt = "while"
                     THEN WhileS(Call(n_cf, <<>>),
                                 <<PrintS(StrLit(S_in)), AssignS(n_cf, Var(n_af)),
                                   AssignS(n_af, Var(n_bf))>>)
                     ELSE IfS(Call(n_cf, <<>>), <<PrintS(StrLit(S_in))>>, <<PrintS(StrLit(S_later))>>),
                     PrintS(StrLit(S_after))>>)>>
            \o GiverFunctions)

ConditionTags ==
    [fam : {"cond"}, stmt : {"while"}, first : Givers, later : {"false"}]
    \cup [fam : {"cond"}, stmt : {"while"}, first : {"true"}, later : Givers]
    \cup [fam : {"cond"}, stmt : {"if"}, first : Givers, later : {"false"}]

-----------------------------------------------------------------------------
(* Arithmetic: main prints a - b, a * b or a / b, for Int operands of either  *)
(* sign and for operands that are a String, a Bool or nil                      *)

DivInts == {-7, -2, 0, 2, 7}

Operand(kind, n) ==
    CASE kind = "int" -> IF n < 0 THEN Neg(IntLit(0 - n)) ELSE IntLit(n)
      [] kind = "str" -> StrLit(<<"2">>)
      [] kind = "bool" -> BoolLit(TRUE)
      [] kind = "nil" -> NilLit

ArithmeticProgram(tag) ==
    Program(tag, <<>>,
            <<Func(N_main, <<>>,
                   <<PrintS(Bin(tag.op, Operand(tag.ak, tag.a), Operand(tag.bk, tag.b)))>>)>>)

ArithmeticTags ==
    [fam : {"arith"}, op : {"-", "*", "/"}, ak : {"int"}, a : DivInts, bk : {"int"}, b : DivInts]
    \cup [fam : {"arith"}, op : {"-", "*", "/"}, ak : {"str", "bool", "nil"}, a : {2},
          bk : {"int", "str", "bool", "nil"}, b : {2}]
    \cup [fam : {"arith"}, op : {"-", "*", "/"}, ak : {"int"}, a : {2},
          bk : {"str", "bool", "nil"}, b : {2}]

-----------------------------------------------------------------------------
(* Conversions of what is no Int, String or Bool: main holds ao (an object),   *)
(* bo and cf (never assigned) and prints the conversion, to each target type,  *)
(* of a new object, of ao, of nil, of bo or of cf                              *)

ConvertedExpr(what) ==
    CASE what = "object" -> ObjLit
      [] what = "ao" -> Var(n_ao)
      [] what = "nil" -> NilLit
      [] what = "bo" -> Var(n_bo)
      [] what = "cf" -> Var(n_cf)

ConversionProgram(tag) ==
    Program(tag, <<>>,
            <<Func(N_main, <<>>,
                   <<VarDefS(n_ao), VarDefS(n_bo), VarDefS(n_cf), AssignS(n_ao, ObjLit),
                     PrintS(Convert(tag.to, ConvertedExpr(tag.what)))>>)>>)

ConversionTags ==
    [fam : {"conv"}, to : {"int", "str", "bool"}, what : {"object", "ao", "nil", "bo", "cf"}]

-----------------------------------------------------------------------------
(* Round trips: main prints bool(int(b)) or bool(str(b)) for a Bool b,          *)
(* int(str(n)) for an Int n, or int(text) for a String                          *)

TripInts == {-12, -1, 0, 5, 12, 100}

Texts == {<<>>, <<"0">>, <<"1","2">>, <<"0","0","7">>, <<"-","5">>, <<"1","a">>, <<"x">>, <<" ">>}

TripProgram(tag) ==
    Program(tag, <<>>,
            <<Func(N_main, <<>>,
                   <<PrintS(CASE tag.trip = "bool-int" -> Convert("bool", Convert("int", BoolLit(tag.b)))
                              [] tag.trip = "bool-str" -> Convert("bool", Convert("str", BoolLit(tag.b)))
                              [] tag.trip = "int-str" ->
                                    Convert("int", Convert("str", Operand("int", tag.n)))
                              [] tag.trip = "str-int" -> Convert("int", StrLit(tag.text)))>>)>>)

TripTags ==
    [fam : {"trip"}, trip : {"bool-int", "bool-str"}, b : BOOLEAN]
    \cup [fam : {"trip"}, trip : {"int-str"}, n : TripInts]
    \cup [fam : {"trip"}, trip : {"str-int"}, text : Texts]

-----------------------------------------------------------------------------
(* A method: main builds ao with ci = 5 and, for the nested shape, ao.bo with  *)
(* ci = 7; the owner (ao, or ao.bo) gets the field mf, a lambda or the         *)
(* function bumpv, whose body prints selfo.ci, assigns selfo.ci its argument   *)
(* and creates selfo.di; main calls the method through the path, with an Int,  *)
(* a String, nil, no argument or two, and prints the owner's ci and di         *)

n_di == <<"d","i">>
n_bumpv == <<"b","u","m","p","v">>

MethodOwner(tag) == IF tag.nested THEN <<n_ao, n_bo>> ELSE <<n_ao>>

MethodBody ==
    <<PrintS(Path(<<N_selfo, n_ci>>)),
      AssignPathS(<<N_selfo, n_ci>>, Var(n_ai)),
      AssignPathS(<<N_selfo, n_di>>, IntLit(1))>>

MethodArgs(tag) ==
    CASE tag.arg = "int" -> <<IntLit(9)>>
      [] tag.arg = "str" -> <<StrLit(S_ok)>>
      [] tag.arg = "nil" -> <<NilLit>>
      [] tag.arg = "none" -> <<>>
      [] tag.arg = "two" -> <<IntLit(9), IntLit(9)>>

MethodProgram(tag) ==
    Program(tag, <<>>,
            <<Func(n_bumpv, <<Arg(n_ai, FALSE)>>, MethodBody),
              Func(N_main, <<>>,
                   <<VarDefS(n_ao), AssignS(n_ao, ObjLit), AssignPathS(<<n_ao, n_ci>>, IntLit(5))>>
                   \o (IF tag.nested
                       THEN <<AssignPathS(<<n_ao, n_bo>>, ObjLit),
                              AssignPathS(<<n_ao, n_bo, n_ci>>, IntLit(7))>>
                       ELSE <<>>)
                   \o <<AssignPathS(MethodOwner(tag) \o <<n_mf>>,
                                    IF tag.lambda
                                    THEN Lambda(Func(n_lamv, <<Arg(n_ai, FALSE)>>, MethodBody))
                                    ELSE Var(n_bumpv)),
                        CallPathS(MethodOwner(tag) \o <<n_mf>>, MethodArgs(tag)),
                        PrintS(Path(MethodOwner(tag) \o <<n_ci>>)),
                        PrintS(Path(MethodOwner(tag) \o <<n_di>>)),
                        PrintS(Path(<<n_ao, n_ci>>))>>)>>)

MethodTags ==
    [fam : {"method"}, nested : BOOLEAN, lambda : BOOLEAN,
     arg : {"int", "str", "nil", "none", "two"}]

-----------------------------------------------------------------------------
(* A call target that is no function: main holds cf and bo (never assigned),   *)
(* xi, and ao, an object with the fields mf (nil), ci (an Int) and bo (an      *)
(* object); inside an if body it declares bf and yi block-scoped.  One of them *)
(* is called, with no argument, an Int or nil, and main prints after the call  *)

TargetName(target) ==
    CASE target = "var-nil" -> <<n_cf>>
      [] target = "var-nilobj" -> <<n_bo>>
      [] target = "var-int" -> <<n_xi>>
      [] target = "var-obj" -> <<n_ao>>
      [] target = "block-nil" -> <<n_bf>>
      [] target = "block-int" -> <<n_yi>>
      [] target = "field-nil" -> <<n_ao, n_mf>>
      [] target = "field-int" -> <<n_ao, n_ci>>
      [] target = "field-obj" -> <<n_ao, n_bo>>

TargetArgs(arg) ==
    CASE arg = "none" -> <<>>
      [] arg = "int" -> <<IntLit(1)>>
      [] arg = "nil" -> <<NilLit>>

TargetProgram(tag) ==
    Program(tag, <<>>,
            <<Func(N_main, <<>>,
                   <<VarDefS(n_cf), VarDefS(n_bo), VarDefS(n_xi), VarDefS(n_ao),
                     AssignS(n_ao, ObjLit),
                     AssignPathS(<<n_ao, n_mf>>, NilLit),
                     AssignPathS(<<n_ao, n_ci>>, IntLit(1)),
                     AssignPathS(<<n_ao, n_bo>>, ObjLit),
                     IfS(BoolLit(TRUE),
                         <<BVarDefS(n_bf), BVarDefS(n_yi),
                           CallPathS(TargetName(tag.target), TargetArgs(tag.arg))>>,
                         <<>>),
                     PrintS(StrLit(S_after))>>)>>)

TargetTags ==
    [fam : {"target"},
     target : {"var-nil", "var-nilobj", "var-int", "var-obj", "block-nil", "block-int",
               "field-nil", "field-int", "field-obj"},
     arg : {"none", "int", "nil"}]

-----------------------------------------------------------------------------
(* References handed on: a by-reference parameter passed by reference again,   *)
(* from the body and from an if body; a by-reference parameter returned and    *)
(* the result passed by reference; a closure made over a by-reference          *)
(* parameter, with a by-reference parameter of its own, called twice; and the  *)
(* same closure made in a loop's body over a block-scoped variable of the body *)
(* and called after the loop                                                    *)

n_incv == <<"i","n","c","v">>
n_passv == <<"p","a","s","s","v">>
n_samei == <<"s","a","m","e","i">>
n_qo == <<"q","o">>

ReferenceFunctions ==
    <<Func(n_incv, <<Arg(n_xi, TRUE)>>, <<AssignS(n_xi, Bin("+", Var(n_xi), IntLit(1)))>>),
      Func(n_passv, <<Arg(n_yi, TRUE)>>,
           <<IfS(BoolLit(TRUE), <<CallS(n_incv, <<Var(n_yi)>>)>>, <<>>),
             CallS(n_incv, <<Var(n_yi)>>)>>),
      Func(n_samei, <<Arg(n_xi, TRUE)>>, <<ReturnS(Var(n_xi))>>),
      Func(n_makef, <<Arg(n_po, TRUE)>>,
           <<ReturnS(Lambda(Func(n_lamv, <<Arg(n_qo, TRUE)>>, <<AssignS(n_qo, Var(n_po))>>)))>>)>>

ReferenceMain(tag) ==
    CASE tag.shape = "pass" ->
            <<VarDefS(n_zi), CallS(n_passv, <<Var(n_zi)>>), PrintS(Var(n_zi))>>
      [] tag.shape = "block" ->
            <<IfS(BoolLit(TRUE),
                  <<BVarDefS(n_zi), CallS(n_passv, <<Var(n_zi)>>), PrintS(Var(n_zi))>>, <<>>)>>
      [] tag.shape = "returned" ->
            <<VarDefS(n_zi), CallS(n_incv, <<Call(n_samei, <<Var(n_zi)>>)>>), PrintS(Var(n_zi))>>
      [] tag.shape = "captured" ->
            <<VarDefS(n_ao), VarDefS(n_bo), VarDefS(n_cf), AssignS(n_ao, ObjLit),
              AssignS(n_bo, ObjLit),
              AssignS(n_cf, Call(n_makef, <<Var(n_ao)>>)),
              CallS(n_cf, <<Var(n_bo)>>), CallS(n_cf, <<Var(n_bo)>>),
              PrintS(Bin("==", Var(n_bo), Var(n_ao)))>>
      [] tag.shape = "loop" ->
            <<VarDefS(n_bo), VarDefS(n_cf), VarDefS(n_ii), AssignS(n_bo, ObjLit),
              WhileS(Bin("<", Var(n_ii), IntLit(1)),
                     <<BVarDefS(n_to), AssignS(n_to, ObjLit),
                       AssignS(n_cf, Call(n_makef, <<Var(n_to)>>)),
                       AssignS(n_ii, Bin("+", Var(n_ii), IntLit(1)))>>),
              PrintS(StrLit(S_after)),
              CallS(n_cf, <<Var(n_bo)>>),
              PrintS(Bin("==", Var(n_bo), NilLit))>>

ReferenceProgram(tag) ==
    Program(tag, <<>>, ReferenceFunctions \o <<Func(N_main, <<>>, ReferenceMain(tag))>>)

ReferenceTags == [fam : {"refs"}, shape : {"pass", "block", "returned", "captured", "loop"}]

-----------------------------------------------------------------------------
(* An object held by an interface-typed variable (xA with A {vali;}, xC with   *)
(* C {mf();}) and what is done to it afterwards: a field added or rewritten,   *)
(* the method field replaced through the other alias vo or through the         *)
(* variable itself, by a function of one parameter or by nil, the variable     *)
(* handed to keepv by reference or by value, which assigns a new empty object  *)
(* to its parameter, and an empty object assigned to the variable directly     *)

n_xC == <<"x","C">>
n_pi == <<"p","i">>
n_keepv == <<"k","e","e","p","v">>

KeptMain(tag) ==
    CASE tag.shape = "add" ->
            BuildObject("vali")
            \o <<VarDefS(n_xA), AssignS(n_xA, Var(n_vo)),
                 AssignPathS(<<n_vo, n_wi>>, IntLit(3))>>
      [] tag.shape = "write" ->
            BuildObject("vali")
            \o <<VarDefS(n_xA), AssignS(n_xA, Var(n_vo)),
                 AssignPathS(<<n_xA, n_vali>>, IntLit(5))>>
      [] tag.shape = "replace" ->
            BuildObject("mfun")
            \o <<VarDefS(n_xC), AssignS(n_xC, Var(n_vo)),
                 AssignPathS(<<n_vo, n_mf>>,
                             Lambda(Func(n_lamv, <<Arg(n_pi, FALSE)>>, <<>>)))>>
      [] tag.shape = "same" ->
            BuildObject("mfun")
            \o <<VarDefS(n_xC), AssignS(n_xC, Var(n_vo)),
                 AssignPathS(<<n_xC, n_mf>>,
                             Lambda(Func(n_lamv, <<Arg(n_pi, FALSE)>>, <<>>)))>>
      [] tag.shape = "nilf" ->
            BuildObject("mfun")
            \o <<VarDefS(n_xC), AssignS(n_xC, Var(n_vo)),
                 AssignPathS(<<n_xC, n_mf>>, NilLit)>>
      [] tag.shape \in {"byref", "byvalue"} ->
            BuildObject("vali")
            \o <<VarDefS(n_xA), AssignS(n_xA, Var(n_vo)), CallS(n_keepv, <<Var(n_xA)>>)>>
      [] tag.shape = "direct" ->
            BuildObject("vali")
            \o <<VarDefS(n_xA), AssignS(n_xA, Var(n_vo)), AssignS(n_xA, ObjLit)>>

KeptProgram(tag) ==
    Program(tag, <<InterfaceA, InterfaceC>>,
            <<Func(n_keepv, <<Arg(n_po, tag.shape = "byref")>>, <<AssignS(n_po, ObjLit)>>),
              Func(N_main, <<>>, KeptMain(tag) \o <<PrintS(StrLit(S_after))>>)>>)

KeptTags ==
    [fam : {"kept"},
     shape : {"add", "write", "replace", "same", "nilf", "byref", "byvalue", "direct"}]

-----------------------------------------------------------------------------
(* Arguments that are nil or void, given to functions that have an overload    *)
(* for an object, a function or an interface in that place: takev(po) and      *)
(* takev(pf), givev(pA) with A {vali;}, twov(po, qi) and twov(pi, qf). The     *)
(* argument is the literal nil, a declared and unassigned ao, cf or xA, the    *)
(* result of print or of the void nopev, or, to compare, an object with vali   *)

n_takev == <<"t","a","k","e","v">>
n_givev == <<"g","i","v","e","v">>
n_twov == <<"t","w","o","v">>
n_pf == <<"p","f">>
n_pA == <<"p","A">>
n_qi == <<"q","i">>
n_qf == <<"q","f">>
S_x == <<"x">>

NilArgFunctions(ref) ==
    <<Func(n_nopev, <<>>, <<>>),
      Func(n_takev, <<Arg(n_po, ref)>>, <<PrintS(StrLit(S_in))>>),
      Func(n_takev, <<Arg(n_pf, ref)>>, <<PrintS(StrLit(S_in))>>),
      Func(n_givev, <<Arg(n_pA, ref)>>, <<PrintS(StrLit(S_in))>>),
      Func(n_twov, <<Arg(n_po, ref), Arg(n_qi, FALSE)>>, <<PrintS(StrLit(S_in))>>),
      Func(n_twov, <<Arg(n_pi, FALSE), Arg(n_qf, ref)>>, <<PrintS(StrLit(S_in))>>)>>

NilArgument(arg) ==
    CASE arg = "nil" -> NilLit
      [] arg = "ao" -> Var(n_ao)
      [] arg = "cf" -> Var(n_cf)
      [] arg = "xA" -> Var(n_xA)
      [] arg = "print" -> Call(N_print, <<StrLit(S_x)>>)
      [] arg = "void" -> Call(n_nopev, <<>>)
      [] arg = "obj" -> Var(n_vo)

NilArgCall(tag) ==
    CASE tag.fn = "take" -> CallS(n_takev, <<NilArgument(tag.arg)>>)
      [] tag.fn = "give" -> CallS(n_givev, <<NilArgument(tag.arg)>>)
      [] tag.fn = "first" -> CallS(n_twov, <<NilArgument(tag.arg), IntLit(1)>>)
      [] tag.fn = "second" -> CallS(n_twov, <<IntLit(1), NilArgument(tag.arg)>>)

NilArgProgram(tag) ==
    Program(tag, <<InterfaceA>>,
            NilArgFunctions(tag.ref)
            \o <<Func(N_main, <<>>,
                      BuildObject("vali")
                      \o <<VarDefS(n_ao), VarDefS(n_cf), VarDefS(n_xA),
                           NilArgCall(tag),
                           PrintS(StrLit(S_after))>>)>>)

NilArgTags ==
    [fam : {"nilarg"}, fn : {"take", "give", "first", "second"},
     arg : {"nil", "ao", "cf", "xA", "print", "void", "obj"}, ref : BOOLEAN]

Tags ==
    SwapTags \cup DispatchTags \cup RegistrationTags \cup ScopeTags \cup NilTags
    \cup ClosureTags \cup ArgTags \cup DestTags \cup AssignTags \cup PathTags
    \cup AliasTags \cup InterfaceTags \cup SatisfactionTags
    \cup ReturnTags \cup UndefinedTags \cup ShownTags
    \cup TwiceTags \cup LoopTags \cup ConditionTags
    \cup ArithmeticTags \cup ConversionTags \cup TripTags
    \cup MethodTags \cup TargetTags \cup ReferenceTags \cup KeptTags
    \cup NilArgTags

\* the lines of host input the scenario feeds the run
InputOf(tag) == IF "lines" \in DOMAIN tag THEN tag.lines ELSE <<>>

ProgramOf(tag) ==
    CASE tag.fam = "swap" -> SwapProgram(tag)
      [] tag.fam = "dispatch" -> DispatchProgram(tag)
      [] tag.fam = "reg" -> RegistrationProgram(tag)
      [] tag.fam = "scope" -> ScopeProgram(tag)
      [] tag.fam = "nil" -> NilProgram(tag)
      [] tag.fam = "closure" -> ClosureProgram(tag)
      [] tag.fam = "ifarg" -> ArgProgram(tag)
      [] tag.fam = "ifdest" -> DestProgram(tag)
      [] tag.fam = "asg" -> AssignProgram(tag)
      [] tag.fam = "path" -> PathProgram(tag)
      [] tag.fam = "alias" -> AliasProgram(tag)
      [] tag.fam = "iface" -> InterfaceProgram(tag)
      [] tag.fam = "sat" -> SatisfactionProgram(tag)
      [] tag.fam = "ret" -> ReturnProgram(tag)
      [] tag.fam = "undef" -> UndefinedProgram(tag)
      [] tag.fam = "shown" -> ShownProgram(tag)
      [] tag.fam = "twice" -> TwiceProgram(tag)
      [] tag.fam = "loop" -> LoopProgram(tag)
      [] tag.fam = "cond" -> ConditionProgram(tag)
      [] tag.fam = "arith" -> ArithmeticProgram(tag)
      [] tag.fam = "conv" -> ConversionProgram(tag)
      [] tag.fam = "trip" -> TripProgram(tag)
      [] tag.fam = "method" -> MethodProgram(tag)
      [] tag.fam = "target" -> TargetProgram(tag)
      [] tag.fam = "refs" -> ReferenceProgram(tag)
      [] tag.fam = "kept" -> KeptProgram(tag)
      [] tag.fam = "nilarg" -> NilArgProgram(tag)

Next ==
    \/ status = "init" /\ \E tag \in Tags : Run(ProgramOf(tag), InputOf(tag))
    \/ DefInterface
    \/ DefFunction
    \/ CallMain
    \/ Exec

Spec == Init /\ [][Next]_vars

\* a run has ended and the same program is run once more on the same input, by a
\* new Interpreter (__init__, lines 9-10, and run, lines 12-23)
RunAgain ==
    /\ status \in {"done", "error", "crash"}
    /\ earlier = <<>>
    /\ earlier' = <<status, error_type, out>>
    /\ status' = "loading"
    /\ error_type' = "none"
    /\ program' = ProgramOf(program.tag)
    /\ inp' = InputOf(program.tag)
    /\ INTERFACES' = EmptyDict
    /\ FUNCTIONS' = EmptyDict
    /\ funcs' = <<>>
    /\ objs' = <<>>
    /\ heap' = <<>>
    /\ K' = <<>>
    /\ ctl' = RunCtl
    /\ out' = <<>>
    /\ called' = <<>>
    /\ steps' = 0
    /\ layout' = 0

NextTwice ==
    \/ Next
    \/ RunAgain

SpecTwice == Init /\ [][NextTwice]_vars

-----------------------------------------------------------------------------
(* Claims *)

Tag == program.tag

\* the elements of a sequence
Range(q) == {q[i] : i \in 1..Len(q)}

\* a call by plain name is about to be made: every argument is evaluated, the name
\* is registered, no variable of the caller's frames bears it, and every argument
\* is an Int, a String, a Bool, an Object or a Function
C1_PlainCall ==
    /\ Running
    /\ ctl.c = "run"
    /\ Top.k = "args"
    /\ Top.todo = <<>>
    /\ Len(Top.name) = 1
    /\ Top.name[1] # N_print
    /\ Top.name[1] \in DOMAIN FUNCTIONS
    /\ Top.name[1] \notin (DOMAIN heap[CurL]) \cup (DOMAIN heap[CurB])
    /\ \A i \in 1..Len(Top.vals) :
           KindOf(heap, Top.vals[i]) \in {"int", "str", "bool", "Object", "Function"}

C1_Letter(kind) ==
    CASE kind = "int" -> "i"
      [] kind = "str" -> "s"
      [] kind = "bool" -> "b"
      [] kind = "Object" -> "o"
      [] kind = "Function" -> "f"

C1_Signature == [i \in 1..Len(Top.vals) |-> C1_Letter(KindOf(heap, Top.vals[i]))]

C1_Members == {f \in Range(FUNCTIONS[Top.name[1]]) : funcs[f].signature = C1_Signature}

\* nothing but the overload's own checks on its parameters can stop the call:
\* its name encodes no interface and every by-reference parameter gets a variable
C1_Binds(f) ==
    /\ ~isupper(Last(Top.name[1]))
    /\ \A i \in 1..Len(funcs[f].args) : funcs[f].args[i].ref => IsRef(Top.vals[i])

\* C1: a call by plain name to a registered function that no caller variable shadows
\* runs the one member of the overload set whose signature is the one derived from the
\* kinds of the arguments, and no other function; when no member matches, the run ends
\* with NAME_ERROR and no function body is entered
C1_OverloadDispatch ==
    [][C1_PlainCall =>
         IF C1_Members = {}
         THEN /\ status' = "error"
              /\ error_type' = "NAME_ERROR"
              /\ called' = called
              /\ out' = out
         ELSE \E f \in C1_Members :
                /\ C1_Members = {f}
                /\ called' \in {called, Append(called, f)}
                /\ error_type' # "NAME_ERROR"
                /\ C1_Binds(f) =>
                       /\ status' = "running"
                       /\ called' = Append(called, f)
                       /\ K'[Len(K')].k = "fn"
                       /\ K'[Len(K')].f = f
                       /\ K'[Len(K')].rest = funcs[f].statements]_vars

\* the (Int) call of the five-overload set has entered the "i" overload
C1_Witness ==
    /\ Tag.fam = "dispatch"
    /\ status = "running"
    /\ Len(FUNCTIONS[n_getValuei]) = 5
    /\ Tag.args = <<1>>
    /\ Top.k = "fn"
    /\ funcs[Top.f].name = n_getValuei
    /\ funcs[Top.f].signature = <<"i">>
    /\ Top.rest = funcs[Top.f].statements

\* the signatures stored under one name are pairwise distinct
C2_Distinct ==
    \A name \in DOMAIN FUNCTIONS :
        \A i, j \in 1..Len(FUNCTIONS[name]) :
            i # j => funcs[FUNCTIONS[name][i]].signature # funcs[FUNCTIONS[name][j]].signature

\* two parameter lists of the same kinds, whatever their `&` flags and interface letters
C2_SameKinds(a, b) ==
    /\ Len(a) = Len(b)
    /\ \A i \in 1..Len(a) : get_variable_type(a[i].name) = get_variable_type(b[i].name)

C2_Registering ==
    /\ status = "loading"
    /\ program.interfaces = <<>>
    /\ program.functions # <<>>

C2_Duplicate ==
    \E f \in 1..Len(funcs) :
        /\ funcs[f].name = Head(program.functions).name
        /\ C2_SameKinds(funcs[f].args, Head(program.functions).args)

\* C2: the signatures registered under one name are always pairwise distinct;
\* registering a function whose parameter kinds are those of a function already
\* registered under its name (by-reference flags and interface letters aside) ends
\* the run with NAME_ERROR and adds nothing, and any other function is added
C2_SignatureUniqueness ==
    /\ []C2_Distinct
    /\ [][C2_Registering =>
             IF C2_Duplicate
             THEN /\ status' = "error"
                  /\ error_type' = "NAME_ERROR"
                  /\ FUNCTIONS' = FUNCTIONS
                  /\ funcs' = funcs
             ELSE create_function_error(Head(program.functions)) = "ok" =>
                  /\ status' = "loading"
                  /\ Len(funcs') = Len(funcs) + 1
                  /\ Head(program.functions).name \in DOMAIN FUNCTIONS'
                  /\ Last(FUNCTIONS'[Head(program.functions).name]) = Len(funcs')]_vars

\* getValuei(&ci) was rejected as a duplicate of the registered getValuei(ai)
C2_Witness ==
    /\ Tag.fam = "reg"
    /\ status = "error"
    /\ error_type = "NAME_ERROR"
    /\ program.functions # <<>>
    /\ Head(program.functions).args = <<Arg(n_ci, TRUE)>>
    /\ \E f \in 1..Len(funcs) : funcs[f].args = <<Arg(n_ai, FALSE)>>

\* C3: after swap(xi, yi) returns, wherever main called it from, a caller variable
\* passed to a by-reference parameter holds the other variable's former value, and
\* a caller variable passed to a non-reference parameter holds its own former value
C3_SwapByReference ==
    (status = "done" /\ Tag.fam = "swap") =>
        out = <<int_str(IF Tag.ra THEN Tag.b ELSE Tag.a),
                int_str(IF Tag.rb THEN Tag.a ELSE Tag.b)>>

C3_Witness ==
    /\ status = "done"
    /\ Tag.fam = "swap"
    /\ Tag.ra /\ Tag.rb
    /\ Tag.a # Tag.b
    /\ Tag.where = "while"
    /\ out = <<int_str(Tag.b), int_str(Tag.a)>>

Ended == status \in {"done", "error", "crash"}

\* the same Value
SameValue(a, b) == a.kind = b.kind /\ a.val = b.val

C4_AtExit == Running /\ ctl.c = "run" /\ Top.k = "if" /\ Top.rest = <<>>

\* the frame the if statement stands in
C4_Enclosing == K[Len(K) - 1]

C4_Slot(h, frame, n) == IF n \in DOMAIN h[frame.B] THEN h[frame.B][n] ELSE h[frame.L][n]

\* what main prints of the enclosing variables after the body
C4_Persisted == <<int_str(5)>> \o (IF Tag.nest THEN <<int_str(6)>> ELSE <<>>)

\* what the probe of yi prints, when yi is defined
C4_Probed ==
    IF Tag.probe = "assign" THEN 9
    ELSE IF Tag.decl = "bvar" THEN 7
    ELSE Tag.v

\* C4: when an if body (either branch) is through, a name that only its block-scoped
\* declarations introduced is undefined in the enclosing frames, so that reading or
\* assigning it is a NAME_ERROR unless the enclosing scope declared the name itself;
\* every function-scoped name of the body, and every enclosing variable the body
\* assigned, is defined in the enclosing frames with the value it last had in the body
C4_IfScopeLifetime ==
    /\ [](Tag.fam = "scope" /\ Ended =>
            IF Tag.decl = "bvar" /\ ~Tag.outer
            THEN status = "error" /\ error_type = "NAME_ERROR" /\ out = C4_Persisted
            ELSE /\ status = "done"
                 /\ out = C4_Persisted \o <<int_str(C4_Probed)>>
                            \o (IF Tag.nest THEN <<int_str(C4_Probed)>> ELSE <<>>))
    /\ [][C4_AtExit =>
            /\ \A n \in (DOMAIN heap[Top.B]) \ (DOMAIN heap[Top.L]) :
                   n \notin (DOMAIN heap'[C4_Enclosing.L]) \cup (DOMAIN heap'[C4_Enclosing.B])
            /\ \A n \in DOMAIN heap[Top.L] :
                   /\ n \in (DOMAIN heap'[C4_Enclosing.L]) \cup (DOMAIN heap'[C4_Enclosing.B])
                   /\ SameValue(Get(heap', C4_Slot(heap', C4_Enclosing, n)),
                                Get(heap, heap[Top.L][n]))]_vars

\* a nested else body declared yi block-scoped; the read of yi after it was a NAME_ERROR
C4_Witness ==
    /\ Tag.fam = "scope"
    /\ Tag.decl = "bvar" /\ ~Tag.outer /\ ~Tag.cond /\ Tag.nest /\ Tag.probe = "read"
    /\ status = "error"
    /\ error_type = "NAME_ERROR"
    /\ out = <<int_str(5), int_str(6)>>

S_true == <<"t","r","u","e">>
S_false == <<"f","a","l","s","e">>

C5_Kinds == {"int", "str", "bool", "Object", "Function", "Nil", "None"}

\* C5: a fresh variable of an object, function or interface type compares == nil
\* as true and != nil as false; once it holds a non-nil value, as false and true; once
\* nil is assigned to it, == nil is true again.  types_equal is true exactly of two
\* equal kinds and of Nil with Object or Function
C5_NilCompatibility ==
    /\ Tag.fam = "nil" /\ Ended =>
           status = "done" /\ out = <<S_true, S_false, S_false, S_true, S_true>>
    /\ \A t1 \in C5_Kinds, t2 \in C5_Kinds :
           types_equal(t1, t2) <=>
               \/ t1 = t2
               \/ t1 = "Nil" /\ t2 \in {"Object", "Function"}
               \/ t2 = "Nil" /\ t1 \in {"Object", "Function"}

\* the interface-typed variable went through the five comparisons, nil on the left
C5_Witness ==
    /\ Tag.fam = "nil"
    /\ Tag.t = "A" /\ Tag.flip
    /\ status = "done"
    /\ out = <<S_true, S_false, S_false, S_true, S_true>>

\* what Observe prints of the value at creation (first) or of the later value
C6_Printed(t, first) ==
    CASE t = "i" -> IF first THEN <<"1">> ELSE <<"2">>
      [] t = "s" -> IF first THEN <<"a">> ELSE <<"b">>
      [] t = "b" -> IF first THEN S_true ELSE S_false
      [] t = "o" -> IF first THEN S_true ELSE S_false

\* C6: a closure called later prints the value an Int, String, Bool or nil variable had
\* when the lambda was evaluated, although the enclosing scope assigned the variable
\* afterwards (a local of main, a by-reference parameter, a loop counter that went on
\* to LoopCount); and when the closure's body assigns the name, the closure prints the
\* new value while the enclosing scope's variable keeps the old one
C6_CaptureByValue ==
    Tag.fam = "closure" /\ Ended =>
        /\ status = "done"
        /\ out = IF Tag.shape = "loop" THEN <<int_str(1), int_str(LoopCount)>>
                 ELSE IF Tag.inside
                      THEN <<C6_Printed(Tag.t, FALSE), C6_Printed(Tag.t, TRUE)>>
                      ELSE <<C6_Printed(Tag.t, TRUE), C6_Printed(Tag.t, FALSE)>>

\* the closure made over a by-reference String parameter printed the value at creation
C6_Witness ==
    /\ Tag.fam = "closure"
    /\ Tag.shape = "param" /\ Tag.t = "s" /\ ~Tag.inside
    /\ status = "done"
    /\ out = <<<<"a">>, <<"b">>>>

\* main's frame
MainL == K[2].L

\* C7: an object passed for a parameter whose name ends in the interface letter X is
\* accepted, and the callee's body runs, when it satisfies X (here: X is A and the
\* object has vali); otherwise the call is a TYPE_ERROR and no statement of the body
\* runs -- whatever the last character of the function's own name
C7_ArgumentInterfaceCheck ==
    Tag.fam = "ifarg" /\ Ended =>
        IF Tag.p = "A" /\ Tag.has
        THEN status = "done" /\ out = <<S_in, S_after>>
        ELSE status = "error" /\ error_type = "TYPE_ERROR" /\ out = <<>> /\ Len(called) = 1

\* the objects of the programs that satisfy A {vali;} and C {mf();}
C8_Satisfies == (Tag.x = "A" /\ Tag.value = "vali") \/ (Tag.x = "C" /\ Tag.value = "mfun")

\* C8: an assignment to x<X> or to the field ho.x<X>, and a return from make<X>(), is
\* accepted for nil and for an object that satisfies X, and is a TYPE_ERROR for any
\* other object and for an Int; after the TYPE_ERROR the variable still holds nil and
\* the field is still absent
C8_AssignReturnInterfaceCheck ==
    Tag.fam = "ifdest" /\ Ended =>
        IF Tag.value = "nil" \/ C8_Satisfies
        THEN status = "done" /\ out = <<S_ok>>
        ELSE /\ status = "error"
             /\ error_type = "TYPE_ERROR"
             /\ out = <<>>
             /\ Tag.dest = "plain" => heap[MainL][<<"x", Tag.x>>] = NilValue
             /\ Tag.dest = "dotted" =>
                    <<"x", Tag.x>> \notin DOMAIN heap[objs[heap[MainL][n_ho].val]]

C9_Kind ==
    CASE Tag.rhs \in {"int", "calli"} -> "int"
      [] Tag.rhs = "str" -> "str"
      [] Tag.rhs \in {"bool", "callb"} -> "bool"
      [] Tag.rhs = "nil" -> "Nil"
      [] Tag.rhs = "obj" -> "Object"
      [] Tag.rhs = "fun" -> "Function"
      [] Tag.rhs = "void" -> "None"

C9_Type ==
    CASE Tag.d = "i" -> "int"
      [] Tag.d = "s" -> "str"
      [] Tag.d = "b" -> "bool"
      [] Tag.d = "o" -> "Object"
      [] Tag.d = "f" -> "Function"

C9_Compatible == C9_Kind = C9_Type \/ (C9_Kind = "Nil" /\ Tag.d \in {"o", "f"})

\* what a variable holds from its declaration on
C9_Fresh ==
    CASE Tag.d = "i" -> Val("int", 0)
      [] Tag.d = "s" -> Val("str", <<>>)
      [] Tag.d = "b" -> Val("bool", FALSE)
      [] OTHER -> NilValue

\* what the right-hand side itself printed
C9_Printed == IF Tag.rhs = "void" THEN <<<<"p">>>> ELSE <<>>

C9_AtAssign ==
    /\ Running
    /\ \/ ctl.c = "run" /\ Top.k \in BlockKinds /\ Top.rest # <<>> /\ Head(Top.rest).s = "assign"
       \/ ctl.c = "val" /\ Top.k = "assign"

\* C9: an assignment, plain or dotted, of a value whose kind is not the type of the
\* destination's last character (nil being compatible with o and f) is a TYPE_ERROR
\* that prints nothing more and leaves the variable as declared, the field absent and
\* every existing dictionary as it was; a compatible value is assigned and the run goes
\* on.  xi = fb() is such a TYPE_ERROR, with no output at all
C9_AssignmentTypeCheck ==
    /\ [](Tag.fam = "asg" /\ Ended =>
            IF C9_Compatible
            THEN status = "done" /\ out = C9_Printed \o <<S_ok>>
            ELSE /\ status = "error"
                 /\ error_type = "TYPE_ERROR"
                 /\ out = C9_Printed
                 /\ SameValue(heap[MainL][<<"x", Tag.d>>], C9_Fresh)
                 /\ <<"x", Tag.d>> \notin DOMAIN heap[objs[heap[MainL][n_ho].val]])
    /\ [][C9_AtAssign /\ status' = "error" /\ error_type' = "TYPE_ERROR" =>
              /\ out' = out
              /\ \A d \in DOMAIN heap : heap'[d] = heap[d]]_vars

\* xi = fb() ended in a TYPE_ERROR before anything was printed
C9_Witness ==
    /\ Tag.fam = "asg"
    /\ Tag.d = "i" /\ Tag.rhs = "callb" /\ ~Tag.dotted
    /\ status = "error"
    /\ error_type = "TYPE_ERROR"
    /\ out = <<>>
    /\ Len(called) = 2
    /\ heap[MainL][n_xi] = Val("int", 0)

\* the first defect along the path of the program, as the error it is stated to be
C10_Defect ==
    IF Tag.base = "nil" THEN "FAULT_ERROR"
    ELSE CASE Tag.mid = "absent" -> IF Tag.op = "read" THEN "NAME_ERROR" ELSE "unstated"
           [] Tag.mid = "nil" -> "FAULT_ERROR"
           [] Tag.mid \in {"int", "fun"} -> "TYPE_ERROR"
           [] OTHER -> IF ~Tag.fin /\ Tag.op = "read" THEN "NAME_ERROR" ELSE "none"

C10_ObjectsUnchanged ==
    [][Tag.fam = "path" /\ status' = "error" =>
           \A o \in 1..Len(objs) : heap'[objs[o]] = heap[objs[o]]]_vars

-----------------------------------------------------------------------------
\* what the holder prints, then what main prints for ao.ci, when every holder shares
\* the field map and a re-assigned holder leaves main's ao alone
C11_Expected ==
    IF Tag.reassign THEN <<int_str(9), int_str(1)>> ELSE <<int_str(2), int_str(2)>>

\* C11: once ao has been copied to bo or to ho.bo, passed to the parameter po, or
\* captured by a closure, a write of ci through the holder or through ao is read back
\* through both (2, 2); and when the holder (the parameter, or the closure's captured
\* name) is first given a new object and ci = 9 is written through it, main's ao still
\* holds the first object (9, 1)
C11_ObjectAliasing ==
    Tag.fam = "alias" /\ Ended => status = "done" /\ out = C11_Expected

-----------------------------------------------------------------------------
\* the interfaces of the program as run() was given them
C12_Declared == ProgramOf(Tag).interfaces

\* the letters declared before the i-th declaration
C12_Earlier(i) == {C12_Declared[j].name : j \in 1..(i - 1)}

\* the i-th declaration is one the claim refuses
C12_Refused(i) ==
    LET interface == C12_Declared[i]
        fields == interface.fields
    IN \/ Len(interface.name) # 1
       \/ interface.name[1] \notin UpperLetters
       \/ interface.name \in C12_Earlier(i)
       \/ \E a, b \in 1..Len(fields) : a # b /\ fields[a].name = fields[b].name
       \/ \E a \in 1..Len(fields) :
              \/ Last(fields[a].name) \notin UpperLetters \cup {"i", "s", "b", "o", "f"}
              \/ /\ Last(fields[a].name) \in UpperLetters
                 /\ <<Last(fields[a].name)>> \notin C12_Earlier(i)

\* the place of a registered letter in the program's declarations
C12_Place(letter) ==
    CHOOSE i \in 1..Len(C12_Declared) :
        /\ C12_Declared[i].name = <<letter>>
        /\ \A j \in 1..(i - 1) : C12_Declared[j].name # <<letter>>

\* every field of a registered interface that ends in an interface letter names an
\* interface registered before its own
C12_Ordered ==
    \A letter \in DOMAIN INTERFACES :
        \A a \in 1..Len(INTERFACES[letter].fields) :
            LET suffix == Last(INTERFACES[letter].fields[a].name) IN
            suffix \in UpperLetters =>
                suffix \in DOMAIN INTERFACES /\ C12_Place(suffix) < C12_Place(letter)

\* C12: a program one of whose interface declarations has a name that is not a single
\* uppercase letter, repeats a letter, repeats a field name, has a field name without
\* a type suffix, or has a field whose uppercase suffix names no earlier interface
\* (itself included) ends in a reported error with main never called and nothing
\* printed; any other list of declarations is registered whole and main runs; and in
\* every state each interface-typed field of a registered interface names an interface
\* registered strictly before it
C12_InterfaceRegistration ==
    /\ C12_Ordered
    /\ Tag.fam = "iface" /\ Ended =>
          IF \E i \in 1..Len(C12_Declared) : C12_Refused(i)
          THEN /\ status = "error"
               /\ error_type \in {"NAME_ERROR", "TYPE_ERROR"}
               /\ called = <<>>
               /\ out = <<>>
               /\ \A i \in 1..Len(C12_Declared) :
                      C12_Refused(i) => C12_Declared[i].name \notin
                                            {<<letter>> : letter \in DOMAIN INTERFACES}
                                        \/ C12_Declared[i].name \in C12_Earlier(i)
          ELSE /\ status = "done"
               /\ out = <<S_ok>>
               /\ DOMAIN INTERFACES = {C12_Declared[i].name[1] : i \in 1..Len(C12_Declared)}

\* B {wi; xA;} was registered after A, then main ran
C12_Witness ==
    /\ Tag.fam = "iface"
    /\ Tag.ifaces = <<1, 3>>
    /\ status = "done"
    /\ DOMAIN INTERFACES = {"A", "B"}

-----------------------------------------------------------------------------
\* the type a parameter name decodes to
C13_Decoded(name) ==
    IF Last(name) \in UpperLetters \cup {"o"} THEN "Object"
    ELSE CASE Last(name) = "i" -> "int" [] Last(name) = "s" -> "str"
           [] Last(name) = "b" -> "bool" [] Last(name) = "f" -> "Function"

\* the parameter pair (interface's, object's) agrees
C13_Pair(ia, oa) ==
    /\ ia.ref = oa.ref
    /\ IF Last(ia.name) \in UpperLetters THEN Last(oa.name) = Last(ia.name)
       ELSE C13_Decoded(ia.name) = C13_Decoded(oa.name)

\* the claim's predicate for M {mf(<ip>);} and the value of vo
C13_Satisfies ==
    \/ Tag.oe = ObjectNil
    \/ /\ Tag.oe \in 1..Len(ParamLists("q"))
       /\ LET int_args == ParamLists("p")[Tag.ip]
              obj_args == ParamLists("q")[Tag.oe]
          IN /\ Len(int_args) = Len(obj_args)
             /\ \A i \in 1..Len(int_args) : C13_Pair(int_args[i], obj_args[i])

\* C13: xM = vo is accepted when vo is nil or its entry mf is a Function with as many
\* parameters as M's mf, pairwise with the same by-reference flag and the same interface
\* letter or else the same decoded type; when mf is absent, holds nil, or holds a
\* Function that does not fit, the predicate is false and the run ends in TYPE_ERROR
C13_SatisfactionPredicate ==
    Tag.fam = "sat" /\ Ended =>
        IF C13_Satisfies THEN status = "done" /\ out = <<S_ok>>
        ELSE status = "error" /\ error_type = "TYPE_ERROR" /\ out = <<>>

-----------------------------------------------------------------------------
\* the type a function name encodes
C14_Type(name) ==
    IF name = N_main \/ Last(name) = "v" THEN "None"
    ELSE IF Last(name) \in UpperLetters \cup {"o"} THEN "Object"
    ELSE CASE Last(name) = "i" -> "int" [] Last(name) = "s" -> "str"
           [] Last(name) = "b" -> "bool" [] Last(name) = "f" -> "Function"

\* the default value of a type: 0, "", false, nil, void
C14_Default(type) ==
    CASE type = "int" -> Val("int", 0)
      [] type = "str" -> Val("str", <<>>)
      [] type = "bool" -> Val("bool", FALSE)
      [] type \in {"Object", "Function"} -> NilValue
      [] type = "None" -> VoidValue

\* the innermost activation is at the end of its body, or at a bare return in any
\* block of it, and its name encodes a type
C14_ReturnsNothing ==
    /\ Running
    /\ ctl.c = "run"
    /\ Top.k \in BlockKinds
    /\ \/ Top.k = "fn" /\ Top.rest = <<>>
       \/ Top.rest # <<>> /\ Head(Top.rest).s = "return" /\ Head(Top.rest).expression.e = "none"
    /\ Last(funcs[K[FnIdx].f].name) \in UpperLetters =>
           Last(funcs[K[FnIdx].f].name) \in DOMAIN INTERFACES

\* the kind of the value get<r>() returns explicitly
C14_Kind ==
    CASE Tag.how = "int" -> "int" [] Tag.how = "str" -> "str" [] Tag.how = "bool" -> "bool"
      [] Tag.how = "nil" -> "Nil" [] Tag.how = "obj" -> "Object" [] Tag.how = "fun" -> "Function"

C14_Explicit == Tag.how \notin {"fall", "bare"}

C14_Name == IF Tag.r = "main" THEN N_main ELSE <<"g","e","t",Tag.r>>

C14_Compatible ==
    \/ C14_Kind = C14_Type(C14_Name)
    \/ C14_Kind = "Nil" /\ C14_Type(C14_Name) \in {"Object", "Function"}

\* what main prints once get<r>() has returned
C14_Shown ==
    CASE Tag.r = "main" -> <<>>
      [] Tag.r = "v" -> <<S_ok>>
      [] Tag.r = "i" -> <<IF C14_Explicit THEN int_str(5) ELSE int_str(0)>>
      [] Tag.r = "s" -> <<IF C14_Explicit THEN <<"a">> ELSE <<>>>>
      [] Tag.r = "b" -> <<IF C14_Explicit THEN S_true ELSE S_false>>
      [] OTHER -> <<IF Tag.how \in {"fall", "bare", "nil"} THEN S_true ELSE S_false>>

\* C14: a function at the end of its body or at a bare return, at any depth of if and
\* while bodies, hands its caller the default value of the type its name encodes (0, "",
\* false, nil, and void for v and main) and its whole activation is gone; get<r>()
\* returning a value whose kind does not fit that type ends in TYPE_ERROR; and after a
\* return at any depth nothing more of the function runs (later is printed only by a
\* body that falls through)
C14_ReturnValues ==
    /\ [](Tag.fam = "ret" /\ Ended =>
            IF C14_Explicit /\ ~C14_Compatible
            THEN status = "error" /\ error_type = "TYPE_ERROR" /\ out = <<S_in>>
            ELSE /\ status = "done"
                 /\ out = <<S_in>> \o (IF Tag.how = "fall" THEN <<S_later>> ELSE <<>>)
                              \o C14_Shown)
    /\ [][C14_ReturnsNothing =>
            /\ status' = "running"
            /\ ctl' = ValCtl(C14_Default(C14_Type(funcs[K[FnIdx].f].name)))
            /\ K' = SubSeq(K, 1, FnIdx - 1)]_vars

\* geti() returned nothing from an if inside a while, and main printed 0
C14_Witness ==
    /\ Tag.fam = "ret"
    /\ Tag.r = "i" /\ Tag.how = "bare" /\ Tag.depth = "ifwhile"
    /\ status = "done"
    /\ out = <<S_in, int_str(0)>>

-----------------------------------------------------------------------------
\* the Function objects of the function table
C15_Registered == UNION {Range(FUNCTIONS[name]) : name \in DOMAIN FUNCTIONS}

\* C15: an interface is registered only while no function is, a function only when no
\* interface is left to register and main has not been called; main is called only when
\* every declaration is loaded; and once main has been called no step (evaluating a
\* lambda literal and calling a closure included) changes the function table, the
\* interface table, or a registered Function
C15_RegistriesFrozen ==
    /\ [](called # <<>> => program.interfaces = <<>> /\ program.functions = <<>>)
    /\ [][/\ INTERFACES' # INTERFACES => status = "loading" /\ FUNCTIONS = EmptyDict
          /\ FUNCTIONS' # FUNCTIONS =>
                 status = "loading" /\ program.interfaces = <<>> /\ called = <<>>
          /\ called # <<>> =>
                 /\ FUNCTIONS' = FUNCTIONS
                 /\ INTERFACES' = INTERFACES
                 /\ \A f \in C15_Registered : funcs'[f] = funcs[f]]_vars

\* main called makef, which evaluated a lambda literal, and then the closure
C15_Witness ==
    /\ Tag.fam = "closure"
    /\ Tag.shape = "param"
    /\ status = "done"
    /\ Len(called) = 3
    /\ Len(funcs) > Cardinality(C15_Registered)

-----------------------------------------------------------------------------
\* C16: a read or an assignment of a variable nobody declared, a call of a function
\* nobody defined, an assignment to x<Z> or ho.x<Z>, and a return from makeZ() where no
\* interface Z is registered, each end the run with a reported NAME_ERROR before
\* anything is printed
C16_UndefinedNames ==
    Tag.fam = "undef" /\ Ended =>
        status = "error" /\ error_type = "NAME_ERROR" /\ out = <<>>

-----------------------------------------------------------------------------
\* C17: when a program has been run and is run again on the same lines of host input,
\* the second run prints the same lines and ends the same way: normally, or with the
\* same error
C17_Determinism ==
    earlier # <<>> /\ Ended => <<status, error_type, out>> = earlier

-----------------------------------------------------------------------------
\* the closures none of whose activations is on the stack
C18_Idle ==
    {f \in 1..Len(funcs) :
        /\ funcs[f].environment # 0
        /\ \A i \in 1..Len(K) : K[i].k = "fn" => K[i].f # f}

\* C18: the captured environment of a closure that is not running holds exactly ao and
\* cf, the names main had declared when the lambda literal was evaluated (no ti, no
\* parameter ai, no selfo); and the closure whose body declares ti, called twice through
\* cf or ao.mf, or calling itself, runs each time: in, in, ok is printed
C18_CapturedSnapshot ==
    Tag.fam = "twice" =>
        /\ \A f \in C18_Idle : DOMAIN heap[funcs[f].environment] = {n_ao, n_cf}
        /\ Ended => status = "done" /\ out = <<S_in, S_in, S_ok>>

-----------------------------------------------------------------------------
(* C19 *)

\* what the loop's body prints: in every iteration the new ti, and xi as the
\* iteration before left it
C19_Iterations == [i \in 1..LoopCount |-> int_str(0) \o int_str(i - 1)]

\* what is printed of xi and yi once the loop is over
C19_Enclosing == <<int_str(LoopCount) \o int_str(2 * LoopCount)>>

\* what a run prints that gets past the statement put after the loop
C19_Rest ==
    (IF Tag.after = "declare" THEN <<int_str(0)>> ELSE <<>>)
    \o (IF Tag.where = "if" THEN <<int_str(3 * LoopCount)>> \o C19_Enclosing ELSE <<>>)

\* the loop is over and the statement after it is at hand, in the block the loop stands in
C19_Past ==
    /\ Tag.fam = "loop"
    /\ Tag.decl = "bvar"
    /\ status = "running"
    /\ ctl.c = "run"
    /\ Top.k = Tag.where
    /\ Top.rest # <<>>
    /\ Head(Top.rest) = LoopAfter(Tag)[1]

\* the dictionaries of the block the loop stands in, as the loop must leave them:
\* in the body of main the two are one dictionary (line 300), in the if body the
\* view of main's variables and the dictionary of the if body's own declaration
C19_Local ==
    DictSet(DictSet(EmptyDict, n_xi, Val("int", LoopCount)), n_yi, Val("int", 2 * LoopCount))

C19_Block ==
    IF Tag.where = "fn" THEN C19_Local
    ELSE DictSet(EmptyDict, n_zi, Val("int", 3 * LoopCount))

\* C19: a name the loop's body declares block-scoped is undeclared again when the
\* next iteration starts (the same declaration succeeds in each of the LoopCount
\* iterations and gives the default value) and is undefined after the loop (reading
\* or assigning it is a NAME_ERROR, declaring it succeeds); the body's assignments
\* to the enclosing variables are seen by the condition and by the later iterations
\* (the loop ends after LoopCount iterations, each printing the xi of the one
\* before); and once the loop is over, LOCAL_VARIABLES and BLOCK_VARIABLES of the
\* enclosing block hold, each exactly the names it held before, with the values
\* last assigned
C19_WhileScoping ==
    /\ Tag.fam = "loop" /\ Tag.decl = "bvar" /\ Ended =>
           IF Tag.after \in {"read", "write"}
           THEN /\ status = "error"
                /\ error_type = "NAME_ERROR"
                /\ out = C19_Iterations \o C19_Enclosing
           ELSE /\ status = "done"
                /\ out = C19_Iterations \o C19_Enclosing \o C19_Rest
    /\ C19_Past => heap[Top.L] = C19_Local /\ heap[Top.B] = C19_Block

C19_Witness ==
    /\ Tag.fam = "loop"
    /\ Tag.decl = "bvar" /\ Tag.where = "if" /\ Tag.cond = "block" /\ Tag.after = "read"
    /\ status = "error"
    /\ error_type = "NAME_ERROR"
    /\ out = C19_Iterations \o C19_Enclosing

-----------------------------------------------------------------------------
(* C20 *)

\* the condition's call gives a Bool
C20_Bool(g) == g \in {"true", "false"}

\* C20: every evaluation of a while condition is checked to be a Bool: when the
\* first evaluation gives a value that is not a Bool the run ends with TYPE_ERROR
\* before the body ran, and when the evaluation after the first iteration does, the
\* run ends with TYPE_ERROR and the body has run exactly once
C20_ConditionChecked ==
    Tag.fam = "cond" /\ Tag.stmt = "while" /\ Ended =>
        IF ~C20_Bool(Tag.first)
        THEN status = "error" /\ error_type = "TYPE_ERROR" /\ out = <<>>
        ELSE IF Tag.first = "true" /\ ~C20_Bool(Tag.later)
        THEN status = "error" /\ error_type = "TYPE_ERROR" /\ out = <<S_in>>
        ELSE status = "done"

-----------------------------------------------------------------------------
(* C21 *)

C21_Abs(n) == IF n < 0 THEN 0 - n ELSE n

\* the quotient rounded toward zero
C21_Truncated(a, b) ==
    IF (a < 0) = (b < 0) THEN C21_Abs(a) \div C21_Abs(b) ELSE 0 - (C21_Abs(a) \div C21_Abs(b))

C21_Value ==
    CASE Tag.op = "-" -> Tag.a - Tag.b
      [] Tag.op = "*" -> Tag.a * Tag.b
      [] Tag.op = "/" -> C21_Truncated(Tag.a, Tag.b)

\* C21: for Int operands a and b, b not 0, a / b is the quotient rounded toward
\* zero (and a - b, a * b the difference and the product); an operand of -, * or /
\* that is not an Int ends the run with TYPE_ERROR and nothing printed
C21_TruncatingDivision ==
    Tag.fam = "arith" /\ Ended =>
        IF Tag.ak = "int" /\ Tag.bk = "int"
        THEN \/ Tag.op = "/" /\ Tag.b = 0
             \/ status = "done" /\ out = <<int_str(C21_Value)>>
        ELSE status = "error" /\ error_type = "TYPE_ERROR" /\ out = <<>>

-----------------------------------------------------------------------------
(* C22 *)

\* C22: a conversion, to int, str or bool, of an operand that evaluates to an
\* object or to nil ends the run with TYPE_ERROR, and nothing is printed
C22_ConversionRejects ==
    Tag.fam = "conv" /\ Ended => status = "error" /\ error_type = "TYPE_ERROR" /\ out = <<>>

-----------------------------------------------------------------------------
(* C23 *)

\* the text consists of decimal digits only
C23_DigitsOnly(text) == text # <<>> /\ \A i \in 1..Len(text) : text[i] \in Range(Digits)

\* C23: a Bool converted to Int and back, or to String and back, is the Bool it
\* was; an Int converted to String and back is the Int it was; and a String
\* converts to Int exactly when it consists of decimal digits only, and is a
\* TYPE_ERROR otherwise
C23_RoundTrips ==
    Tag.fam = "trip" /\ Ended =>
        CASE Tag.trip \in {"bool-int", "bool-str"} ->
                status = "done" /\ out = <<IF Tag.b THEN S_true ELSE S_false>>
          [] Tag.trip = "int-str" -> status = "done" /\ out = <<int_str(Tag.n)>>
          [] Tag.trip = "str-int" ->
                IF C23_DigitsOnly(Tag.text) THEN status = "done" /\ Len(out) = 1
                ELSE status = "error" /\ error_type = "TYPE_ERROR" /\ out = <<>>

-----------------------------------------------------------------------------
(* C24 *)

\* the method's body is running
C24_InMethod ==
    /\ Tag.fam = "method"
    /\ status = "running"
    /\ Len(called) = 2
    /\ Len(K) = 4
    /\ Top.k = "fn"

\* the field map of the object that owns the field mf
C24_OwnerFields ==
    LET fields == objs[heap[MainL][n_ao].val] IN
    IF Tag.nested THEN objs[heap[fields][n_bo].val] ELSE fields

\* C24: while the body of a method called through a dotted path runs, selfo in its
\* frame is an object whose field map is the field map of the object that owns the
\* method field; the body reads the owner's field through selfo (it prints the
\* owner's ci), and what it writes through selfo (ci, and the new field di) is read
\* back through the caller's path after the call; and an argument list that does
\* not match the method's parameter kinds (a String, nil, no argument or two for
\* the one Int parameter) ends the run with TYPE_ERROR before the body runs
C24_MethodDispatch ==
    /\ C24_InMethod =>
           /\ N_selfo \in DOMAIN heap[Top.L]
           /\ heap[Top.L][N_selfo].kind = "Object"
           /\ objs[heap[Top.L][N_selfo].val] = C24_OwnerFields
    /\ Tag.fam = "method" /\ Ended =>
           IF Tag.arg = "int"
           THEN /\ status = "done"
                /\ out = <<int_str(IF Tag.nested THEN 7 ELSE 5), int_str(9), int_str(1),
                           int_str(IF Tag.nested THEN 5 ELSE 9)>>
           ELSE status = "error" /\ error_type = "TYPE_ERROR" /\ out = <<>>

-----------------------------------------------------------------------------
(* C25 *)

C25_Nil == Tag.target \in {"var-nil", "var-nilobj", "block-nil", "field-nil"}

C25_Field == Tag.target \in {"field-nil", "field-int", "field-obj"}

\* the run ended at the call: no body but main's was entered, nothing was printed
C25_Stopped(err) ==
    status = "error" /\ error_type = err /\ Len(called) = 1 /\ out = <<>>

\* as the claim states it: a call through a variable or a field that holds nil is a
\* FAULT_ERROR, through one that holds a value that is no function a TYPE_ERROR,
\* and the call enters no body and prints nothing
C25_NilCallTarget_Stated ==
    Tag.fam = "target" /\ Ended =>
        IF C25_Nil THEN C25_Stopped("FAULT_ERROR") ELSE C25_Stopped("TYPE_ERROR")

\* C25: a call through a variable or an object field that holds nil, whose
\* arguments are Int, String, Bool, object or function values, ends the run with
\* FAULT_ERROR, and a call through one that holds a value that is no function with
\* TYPE_ERROR; a call through a variable with an argument that is nil is a
\* TYPE_ERROR whatever the variable holds, while through a field the target is
\* looked at first; in every case no body is entered and nothing is printed
C25_NilCallTarget ==
    Tag.fam = "target" /\ Ended =>
        IF C25_Nil /\ (C25_Field \/ Tag.arg # "nil")
        THEN C25_Stopped("FAULT_ERROR")
        ELSE C25_Stopped("TYPE_ERROR")

C25_Witness ==
    /\ Tag.fam = "target" /\ Tag.target = "block-nil" /\ Tag.arg = "int"
    /\ C25_Stopped("FAULT_ERROR")

-----------------------------------------------------------------------------
(* C26 *)

\* the dictionary d is the field map of an object
C26_FieldMap(d) == \E o \in 1..Len(objs) : objs[o] = d

\* the slot a Reference targets is there and holds a plain Value
C26_Grounded(x) == x.name \in DOMAIN heap[x.env] /\ ~IsRef(heap[x.env][x.name])

\* C26: in every state, in every program, an object field holds a plain Value, and
\* an entry of a frame or of a captured environment holds a plain Value or a
\* Reference whose target slot holds a plain Value
C26_NoReferenceChains ==
    \A d \in 1..Len(heap) : \A n \in DOMAIN heap[d] :
        IsRef(heap[d][n]) => ~C26_FieldMap(d) /\ C26_Grounded(heap[d][n])

-----------------------------------------------------------------------------
(* C27 *)

\* the kinds a slot of the name may hold, by the name's last character
C27_Kinds(name) ==
    LET c == Last(name) IN
    CASE c = "i" -> {"int"}
      [] c = "s" -> {"str"}
      [] c = "b" -> {"bool"}
      [] c = "o" \/ isupper(c) -> {"Object", "Nil"}
      [] c = "f" -> {"Function", "Nil"}
      [] OTHER -> {}

\* the entry of a dictionary is a Reference whose slot is gone: it has no value to judge
C27_Gone(x) == IsRef(x) /\ x.name \notin DOMAIN heap[x.env]

\* C27: in every state, in every program, every entry of a frame, of a captured
\* environment and of an object's field map (a declared variable, a bound
\* parameter, selfo, a captured name, a field) holds, itself or through its
\* Reference, a value whose kind fits the last character of the entry's name: Int for
\* i, String for s, Bool for b, Object or nil for o and for an uppercase letter,
\* Function or nil for f; never a value of another kind and never the void value
C27_KindSoundness ==
    \A d \in 1..Len(heap) : \A n \in DOMAIN heap[d] :
        C27_Gone(heap[d][n]) \/ KindOf(heap, heap[d][n]) \in C27_Kinds(n)

\* a method that is a closure has run: a declared variable, a bound parameter,
\* selfo, captured names and fields all hold values
C27_Witness ==
    /\ Tag.fam = "method" /\ Tag.lambda /\ Tag.nested /\ Tag.arg = "int"
    /\ status = "done"
    /\ \E d \in 1..Len(heap) : {N_selfo, n_ai, n_ao} \subseteq DOMAIN heap[d]
    /\ \E d \in 1..Len(heap) : C26_FieldMap(d) /\ {n_ci, n_di, n_mf} \subseteq DOMAIN heap[d]

-----------------------------------------------------------------------------
(* C28 *)

\* the entry n of dictionary d holds nil or an object that satisfies the
\* interface of the name's last letter, as validate_object_with_interface finds now
C28_Satisfies(d, n) ==
    /\ KindOf(heap, heap[d][n]) \in {"Object", "Nil"}
    /\ validate_object_with_interface(INTERFACES[Last(n)], heap[d][n],
                                      [heap |-> heap, objs |-> objs, funcs |-> funcs]) = "true"

\* the entries whose names end in a registered interface letter
C28_Typed(d, n) ==
    /\ isupper(Last(n))
    /\ Last(n) \in DOMAIN INTERFACES
    /\ ~C27_Gone(heap[d][n])

\* C28: in every state, every variable, parameter and object field whose name ends
\* in a registered interface letter holds nil or an object that satisfies the
\* interface now: no later field assignment, through this or another alias, and no
\* other statement makes the held object stop satisfying it
C28_ConformancePreserved ==
    \A d \in 1..Len(heap) : \A n \in DOMAIN heap[d] :
        C28_Typed(d, n) => C28_Satisfies(d, n)

\* the same over the programs that leave the method field and the by-reference
\* parameter alone and pass no object to a parameter of another letter than the
\* function's
C28_Rest ==
    (/\ Tag.fam = "kept" => Tag.shape \in {"add", "write", "byvalue", "direct"}
     /\ Tag.fam = "ifarg" => Tag.f = Tag.p)
    => C28_ConformancePreserved

\* what the programs on an interface-typed variable end with
C28_Outcomes ==
    (Tag.fam = "kept" /\ Ended)
    => IF Tag.shape = "direct" THEN status = "error" /\ error_type = "TYPE_ERROR" /\ out = <<>>
       ELSE status = "done" /\ out = <<S_after>>

-----------------------------------------------------------------------------
(* C29 *)

\* the declaration of ti at the head of the loop's body is the statement at hand
C29_AtDeclaration ==
    /\ Top.k = "while"
    /\ Len(Top.rest) = Len(Top.statements)
    /\ Head(Top.rest).s \in {"vardef", "bvardef"}
    /\ Head(Top.rest).name = n_ti

\* what the first iteration prints of ti and xi
C29_First == <<int_str(0) \o int_str(0)>>

\* C29: a while body that declares ti with var and comes to a second iteration ends
\* the run with NAME_ERROR at that declaration in the second iteration, when exactly
\* the first iteration has printed; the same body with bvar is never stopped at its
\* declaration and prints every one of its LoopCount iterations
C29_FunctionScopedInLoop ==
    (Tag.fam = "loop" /\ Ended)
    => IF Tag.decl = "var"
       THEN /\ status = "error" /\ error_type = "NAME_ERROR"
            /\ out = C29_First
            /\ C29_AtDeclaration
            /\ n_ti \in DOMAIN heap[Top.L]
       ELSE /\ ~(status = "error" /\ C29_AtDeclaration)
            /\ Len(out) >= LoopCount
            /\ \A i \in 1..LoopCount : out[i] = int_str(0) \o int_str(i - 1)

\* the second iteration of a body with a function-scoped declaration was stopped
C29_Witness ==
    /\ Tag.fam = "loop" /\ Tag.decl = "var" /\ Tag.where = "if"
    /\ status = "error" /\ error_type = "NAME_ERROR"
    /\ C29_AtDeclaration
    /\ out = C29_First

\* a body with a block-scoped declaration has run all its iterations
C29_WitnessBlock ==
    /\ Tag.fam = "loop" /\ Tag.decl = "bvar" /\ Tag.after = "none"
    /\ status = "done"
    /\ Len(out) > LoopCount

-----------------------------------------------------------------------------
(* C30 *)

\* the argument of the call holds nil, or is void
C30_NilOrVoid == Tag.arg \in {"nil", "ao", "cf", "xA", "print", "void"}

\* the body of takev, givev or twov was entered
C30_Entered ==
    \E i \in 1..Len(called) : funcs[called[i]].name \in {n_takev, n_givev, n_twov}

\* what evaluating the argument itself prints
C30_Printed == IF Tag.arg = "print" THEN <<S_x>> ELSE <<>>

\* C30: a call by plain name to a user function with an argument that holds nil
\* (the literal, or a declared and unassigned object, function or interface
\* variable) or that is void (the result of print or of a void function), as the
\* only, the first or the second argument, by value or by reference, ends the run
\* with TYPE_ERROR although an overload with an o, f or interface-typed parameter
\* in that place exists; no statement of the called function runs and nothing
\* after the call is printed
C30_NilVoidArguments ==
    (Tag.fam = "nilarg" /\ C30_NilOrVoid)
    => /\ ~C30_Entered
       /\ Ended => /\ status = "error" /\ error_type = "TYPE_ERROR"
                   /\ out = C30_Printed

\* the call with an unassigned object variable was refused where the overload
\* twov(po, qi) exists
C30_Witness ==
    /\ Tag.fam = "nilarg" /\ Tag.fn = "first" /\ Tag.arg = "ao"
    /\ status = "error" /\ error_type = "TYPE_ERROR"
    /\ Len(called) = 1

\* the same calls with an object that has vali enter the overload
C30_ObjectDispatches ==
    (Tag.fam = "nilarg" /\ Tag.arg = "obj" /\ Ended)
    => IF Tag.fn = "second" THEN status = "error" /\ error_type = "NAME_ERROR" /\ ~C30_Entered
       ELSE status = "done" /\ out = <<S_in, S_after>>

====
